---- MODULE Spec2Model ----
(***************************************************************************)
(* Model of the coverage / recommendation engine of wbbot                  *)
(* (src/bot/metrics.py): build_views and recommend_next, with the helper   *)
(* functions _weights, _compute_global_speed and _weighted_avg_time.       *)
(*                                                                         *)
(* Python floats are modelled as exact rationals extended with the special *)
(* values the code can produce or meet: +inf, -inf, nan, and the marker    *)
(* "zde" for an evaluation that raises ZeroDivisionError.  Rounding of     *)
(* binary floating point is not modelled.                                  *)
(***************************************************************************)
EXTENDS Integers, Sequences, FiniteSets, TLC

\* ------------------------------------------------------------------ bounds
MaxRows == 2
MaxTopN == 2
MaxBatch == 2

\* ------------------------------------------------------- float arithmetic
Abs(x) == IF x < 0 THEN -x ELSE x

RECURSIVE Gcd(_, _)
Gcd(a, b) == IF b = 0 THEN a ELSE Gcd(b, a % b)

\* the finite float n/d, kept in lowest terms with a positive denominator
Fin(n, d) ==
    LET g == Gcd(Abs(n), Abs(d))
        s == IF d < 0 THEN -1 ELSE 1
    IN  [k |-> "fin", n |-> (s * n) \div g, d |-> (s * d) \div g]

Inf == [k |-> "inf", n |-> 0, d |-> 1]
NegInf == [k |-> "ninf", n |-> 0, d |-> 1]
NaN == [k |-> "nan", n |-> 0, d |-> 1]
ZDE == [k |-> "zde", n |-> 0, d |-> 1]
None == [k |-> "none", n |-> 0, d |-> 1]
Zero == Fin(0, 1)
One == Fin(1, 1)
Hundred == Fin(100, 1)

IsFin(a) == a.k = "fin"
Raised(a) == a.k = "zde"
Sign(a) ==
    CASE a.k = "inf" -> 1
      [] a.k = "ninf" -> -1
      [] OTHER -> IF a.n > 0 THEN 1 ELSE IF a.n < 0 THEN -1 ELSE 0

\* a == b on floats (nan equals nothing)
FEq(a, b) == a.k # "nan" /\ b.k # "nan" /\ a = b

\* a < b on floats (every comparison with nan is False)
FLt(a, b) ==
    CASE a.k = "nan" \/ b.k = "nan" -> FALSE
      [] a.k = "inf" -> FALSE
      [] a.k = "ninf" -> b.k # "ninf"
      [] b.k = "inf" -> TRUE
      [] b.k = "ninf" -> FALSE
      [] OTHER -> a.n * b.d < b.n * a.d

FGt(a, b) == FLt(b, a)
FLe(a, b) == FLt(a, b) \/ FEq(a, b)

\* a + b
FAdd(a, b) ==
    CASE Raised(a) \/ Raised(b) -> ZDE
      [] a.k = "nan" \/ b.k = "nan" -> NaN
      [] IsFin(a) /\ IsFin(b) -> Fin(a.n * b.d + b.n * a.d, a.d * b.d)
      [] IsFin(a) -> b
      [] IsFin(b) -> a
      [] OTHER -> IF a.k = b.k THEN a ELSE NaN

FNeg(a) ==
    CASE a.k = "fin" -> Fin(-a.n, a.d)
      [] a.k = "inf" -> NegInf
      [] a.k = "ninf" -> Inf
      [] OTHER -> a

\* a - b
FSub(a, b) == FAdd(a, FNeg(b))

\* a * b  (0 * inf is nan)
FMul(a, b) ==
    CASE Raised(a) \/ Raised(b) -> ZDE
      [] a.k = "nan" \/ b.k = "nan" -> NaN
      [] IsFin(a) /\ IsFin(b) -> Fin(a.n * b.n, a.d * b.d)
      [] OTHER -> IF Sign(a) * Sign(b) = 0 THEN NaN
                  ELSE IF Sign(a) * Sign(b) > 0 THEN Inf ELSE NegInf

\* a / b  (a zero divisor raises ZeroDivisionError)
FDiv(a, b) ==
    CASE Raised(a) \/ Raised(b) -> ZDE
      [] a.k = "nan" \/ b.k = "nan" -> NaN
      [] IsFin(b) /\ b.n = 0 -> ZDE
      [] IsFin(a) /\ IsFin(b) -> Fin(a.n * b.d, a.d * b.n)
      [] IsFin(a) -> Zero
      [] IsFin(b) -> IF Sign(a) * Sign(b) > 0 THEN Inf ELSE NegInf
      [] OTHER -> NaN

\* min(a, b) of Python: b if b < a else a
FMin(a, b) == IF FLt(b, a) THEN b ELSE a

\* sum(f[x] for x in S), starting from 0
RECURSIVE FSum(_, _)
FSum(f, S) ==
    IF S = {} THEN Zero
    ELSE LET x == CHOOSE y \in S : TRUE
         IN  FAdd(f[x], FSum(f, S \ {x}))

\* -------------------------------------------------------------- dict helpers
\* d.get(key, default)
Get(d, key, default) == IF key \in DOMAIN d THEN d[key] ELSE default

\* d[key] = v
Put(d, key, v) == [x \in (DOMAIN d) \cup {key} |-> IF x = key THEN v ELSE d[x]]

EmptyDict == [x \in {} |-> 0]

\* the position of a key in an insertion-ordered key list, appended when new
Touch(order, key) ==
    IF \E i \in 1..Len(order) : order[i] = key THEN order ELSE Append(order, key)

\* ------------------------------------------------------------ Python values
\* warehouse ids as Python values: an int or a str, v its decimal/text form
IntId(s) == [ty |-> "int", v |-> s]
StrId(s) == [ty |-> "str", v |-> s]

\* str(x): an int becomes the text of its decimal form, a str stays itself
PyStr(x) == [ty |-> "str", v |-> x.v]

\* list.sort(key=..., reverse=True) on a list of [key, val] pairs: stable,
\* descending; x is placed before the first element whose key is smaller
RECURSIVE InsertDesc(_, _)
InsertDesc(sorted, x) ==
    IF sorted = <<>> THEN <<x>>
    ELSE IF FLt(Head(sorted).key, x.key) THEN <<x>> \o sorted
    ELSE <<Head(sorted)>> \o InsertDesc(Tail(sorted), x)

RECURSIVE SortDescFrom(_, _, _)
SortDescFrom(pairs, i, acc) ==
    IF i > Len(pairs) THEN acc
    ELSE SortDescFrom(pairs, i + 1, InsertDesc(acc, pairs[i]))

SortDesc(pairs) == SortDescFrom(pairs, 1, <<>>)

\* lst[:n]
Slice(lst, n) ==
    IF n >= 0 THEN SubSeq(lst, 1, IF n < Len(lst) THEN n ELSE Len(lst))
    ELSE SubSeq(lst, 1, IF Len(lst) + n > 0 THEN Len(lst) + n ELSE 0)

\* ------------------------------------------------------------- metrics.py
\* _weights dividing by the sum of all sales values instead of the sales of
\* the observed regions
_weights_all_sales(regions, sales) ==
    LET total == FSum([r \in regions |-> Get(sales, r, Zero)], regions)
        n == Fin(Cardinality(regions), 1)
        val == IF DOMAIN sales # {} /\ FGt(FSum(sales, DOMAIN sales), Zero)
                  /\ FGt(total, Zero)
               THEN [r \in regions |->
                       FDiv(Get(sales, r, Zero), FSum(sales, DOMAIN sales))]
               ELSE [r \in regions |-> FDiv(One, n)]
    IN  [raised |-> \E r \in regions : Raised(val[r]), val |-> val]

\* _weights without the "if total > 0" guard: sales-weighted whenever the
\* sales mapping has a positive sum
_weights_no_fallback(regions, sales) ==
    LET total == FSum([r \in regions |-> Get(sales, r, Zero)], regions)
        n == Fin(Cardinality(regions), 1)
        val == IF DOMAIN sales # {} /\ FGt(FSum(sales, DOMAIN sales), Zero)
               THEN [r \in regions |-> FDiv(Get(sales, r, Zero), total)]
               ELSE [r \in regions |-> FDiv(One, n)]
    IN  [raised |-> \E r \in regions : Raised(val[r]), val |-> val]

\* _weights computing the uniform weight 1/n once, before the comprehension
_weights_eager_uniform(regions, sales) ==
    LET total == FSum([r \in regions |-> Get(sales, r, Zero)], regions)
        n == Fin(Cardinality(regions), 1)
        u == FDiv(One, n)
        sold == DOMAIN sales # {} /\ FGt(FSum(sales, DOMAIN sales), Zero)
                   /\ FGt(total, Zero)
        val == IF sold
               THEN [r \in regions |-> FDiv(Get(sales, r, Zero), total)]
               ELSE [r \in regions |-> u]
    IN  [raised |-> (~sold /\ Raised(u)) \/ \E r \in regions : Raised(val[r]),
         val |-> val]

\* _weights: sales-weighted when the sales over the given regions are
\* positive, uniform 1/n otherwise; raised tells that the evaluation raised
_weights(regions, sales) ==
    LET total == FSum([r \in regions |-> Get(sales, r, Zero)], regions)
        n == Fin(Cardinality(regions), 1)
        val == IF DOMAIN sales # {} /\ FGt(FSum(sales, DOMAIN sales), Zero)
                  /\ FGt(total, Zero)
               THEN [r \in regions |-> FDiv(Get(sales, r, Zero), total)]
               ELSE [r \in regions |-> FDiv(One, n)]
    IN  [raised |-> \E r \in regions : Raised(val[r]), val |-> val]

\* _compute_global_speed giving up (speed 0) as soon as a region of positive
\* weight is unreachable, the way _weighted_avg_time does
_compute_global_speed_poisoned(region_best_time, weights) ==
    IF \E r \in DOMAIN weights :
          FEq(Get(region_best_time, r, Inf), Inf) /\ FGt(weights[r], Zero)
    THEN Zero
    ELSE FSum([r \in DOMAIN weights |->
                 FMul(weights[r], FDiv(One, Get(region_best_time, r, Inf)))],
              DOMAIN weights)

\* _compute_global_speed: sum of w * (0 if unreachable else 1/t)
_compute_global_speed(region_best_time, weights) ==
    FSum([r \in DOMAIN weights |->
            LET t == Get(region_best_time, r, Inf)
                speed == IF FEq(t, Inf) THEN Zero ELSE FDiv(One, t)
            IN  FMul(weights[r], speed)],
         DOMAIN weights)

\* _weighted_avg_time
_weighted_avg_time(region_best_time, weights) ==
    IF \E r \in DOMAIN weights :
          FEq(Get(region_best_time, r, Inf), Inf) /\ FGt(weights[r], Zero)
    THEN Inf
    ELSE FSum([r \in DOMAIN weights |->
                 FMul(weights[r], Get(region_best_time, r, Inf))],
              DOMAIN weights)

\* the dictionaries of build_views before its loop
EmptyMinima ==
    [region_name |-> EmptyDict, region_order |-> <<>>,
     best_all |-> EmptyDict, best_active |-> EmptyDict,
     best_by_wh |-> EmptyDict, wh_order |-> <<>>, wh_name |-> EmptyDict]

\* the loop body with best_all updated in an else branch, for inactive
\* warehouses only
BuildStep_all_else(m, row, active) ==
    LET r == row.region_code
        w_id == PyStr(row.warehouse_id)
        t == IF row.time_hours = None THEN Inf ELSE row.time_hours
        all0 == Get(m.best_all, r, Inf)
        act0 == Get(m.best_active, r, Inf)
        wh0 == Get(m.best_by_wh, w_id, EmptyDict)
        whr0 == Get(wh0, r, Inf)
    IN  [region_name |-> Put(m.region_name, r, row.region_name),
         region_order |-> Touch(m.region_order, r),
         best_all |->
             IF w_id \in active
             THEN Put(m.best_all, r, all0)
             ELSE Put(m.best_all, r, IF FLt(t, all0) THEN t ELSE all0),
         best_active |->
             IF w_id \in active
             THEN Put(m.best_active, r, IF FLt(t, act0) THEN t ELSE act0)
             ELSE m.best_active,
         best_by_wh |->
             Put(m.best_by_wh, w_id, Put(wh0, r, IF FLt(t, whr0) THEN t ELSE whr0)),
         wh_order |-> Touch(m.wh_order, w_id),
         wh_name |-> Put(m.wh_name, w_id, row.warehouse_name)]

\* the loop body storing the time of the latest row instead of the minimum
BuildStep_last_wins(m, row, active) ==
    LET r == row.region_code
        w_id == PyStr(row.warehouse_id)
        t == IF row.time_hours = None THEN Inf ELSE row.time_hours
        wh0 == Get(m.best_by_wh, w_id, EmptyDict)
    IN  [region_name |-> Put(m.region_name, r, row.region_name),
         region_order |-> Touch(m.region_order, r),
         best_all |-> Put(m.best_all, r, t),
         best_active |->
             IF w_id \in active THEN Put(m.best_active, r, t) ELSE m.best_active,
         best_by_wh |-> Put(m.best_by_wh, w_id, Put(wh0, r, t)),
         wh_order |-> Touch(m.wh_order, w_id),
         wh_name |-> Put(m.wh_name, w_id, row.warehouse_name)]

\* one iteration of the loop of build_views over speeds_rows; a defaultdict
\* gains a key (with value inf) when it is read
BuildStep(m, row, active) ==
    LET r == row.region_code
        w_id == PyStr(row.warehouse_id)
        t == IF row.time_hours = None THEN Inf ELSE row.time_hours
        all0 == Get(m.best_all, r, Inf)
        act0 == Get(m.best_active, r, Inf)
        wh0 == Get(m.best_by_wh, w_id, EmptyDict)
        whr0 == Get(wh0, r, Inf)
    IN  [region_name |-> Put(m.region_name, r, row.region_name),
         region_order |-> Touch(m.region_order, r),
         best_all |-> Put(m.best_all, r, IF FLt(t, all0) THEN t ELSE all0),
         best_active |->
             IF w_id \in active
             THEN Put(m.best_active, r, IF FLt(t, act0) THEN t ELSE act0)
             ELSE m.best_active,
         best_by_wh |->
             Put(m.best_by_wh, w_id, Put(wh0, r, IF FLt(t, whr0) THEN t ELSE whr0)),
         wh_order |-> Touch(m.wh_order, w_id),
         wh_name |-> Put(m.wh_name, w_id, row.warehouse_name)]

RECURSIVE BuildLoop(_, _, _, _)
BuildLoop(rows, i, m, active) ==
    IF i > Len(rows) THEN m
    ELSE BuildLoop(rows, i + 1, BuildStep(m, rows[i], active), active)

\* sales = {row["region_code"]: float(row["orders"]) for row in sales_rows}
RECURSIVE SalesDict(_, _, _)
SalesDict(rows, i, d) ==
    IF i > Len(rows) THEN d
    ELSE SalesDict(rows, i + 1, Put(d, rows[i].region_code, rows[i].orders))

\* coverage without the guard on global_opt == 0
Coverage_unguarded(speed, global_opt) == FMul(FDiv(speed, global_opt), Hundred)

\* coverage = 0.0 if global_opt == 0 else global_current / global_opt * 100
Coverage(speed, global_opt) ==
    IF FEq(global_opt, Zero) THEN Zero ELSE FMul(FDiv(speed, global_opt), Hundred)

build_views(rows, active, sales_rows) ==
    LET m == BuildLoop(rows, 1, EmptyMinima, active)
        regions == DOMAIN m.region_name
        sales == SalesDict(sales_rows, 1, EmptyDict)
        wres == _weights(regions, sales)
        weights == wres.val
        global_current == _compute_global_speed(m.best_active, weights)
        global_opt == _compute_global_speed(m.best_all, weights)
        coverage == Coverage(global_current, global_opt)
        avg == _weighted_avg_time(m.best_active, weights)
    IN  [region_name |-> m.region_name,
         region_order |-> m.region_order,
         best_all |-> m.best_all,
         best_active |-> m.best_active,
         best_by_wh |-> m.best_by_wh,
         wh_order |-> m.wh_order,
         weights |-> weights,
         global_current |-> global_current,
         global_opt |-> global_opt,
         coverage |-> coverage,
         warehouse_names |-> m.wh_name,
         avg_time_current |-> avg,
         raised |-> wres.raised \/ Raised(global_current) \/ Raised(global_opt)
                    \/ Raised(coverage) \/ Raised(avg)]

\* new_best taking the candidate's time alone, without the min
NewBest_candidate_only(view, by_region) ==
    [r \in DOMAIN view.region_name |-> Get(by_region, r, Inf)]

\* new_best of recommend_next: the active best joined with one warehouse
NewBest(view, by_region) ==
    [r \in DOMAIN view.region_name |->
        FMin(Get(view.best_active, r, Inf), Get(by_region, r, Inf))]

\* marginal_pct guarded on marginal_abs instead of global_current
MarginalPct_guard_abs(marginal_abs, global_current) ==
    IF FEq(marginal_abs, Zero) THEN None
    ELSE FMul(FDiv(marginal_abs, global_current), Hundred)

\* marginal_pct = None if global_current == 0 else marginal_abs / global_current * 100
MarginalPct(marginal_abs, global_current) ==
    IF FEq(global_current, Zero) THEN None
    ELSE FMul(FDiv(marginal_abs, global_current), Hundred)

\* the changes list with ties (new_t <= old_t) reported as changes
RegionChanges_with_ties(view, new_best) ==
    LET improved == SelectSeq(view.region_order,
                        LAMBDA r : FLe(new_best[r], Get(view.best_active, r, Inf)))
        pairs == [i \in 1..Len(improved) |->
                    LET r == improved[i]
                    IN  [key |-> view.weights[r],
                         val |-> [code |-> r, name |-> view.region_name[r],
                                  weight |-> view.weights[r],
                                  old_time |-> Get(view.best_active, r, Inf),
                                  new_time |-> new_best[r]]]]
        sorted == SortDesc(pairs)
    IN  [i \in 1..Len(sorted) |-> sorted[i].val]

\* the changes list of one candidate, in the order of region_name, then
\* sorted(changes, key=weight, reverse=True)
RegionChanges(view, new_best) ==
    LET improved == SelectSeq(view.region_order,
                        LAMBDA r : FLt(new_best[r], Get(view.best_active, r, Inf)))
        pairs == [i \in 1..Len(improved) |->
                    LET r == improved[i]
                    IN  [key |-> view.weights[r],
                         val |-> [code |-> r, name |-> view.region_name[r],
                                  weight |-> view.weights[r],
                                  old_time |-> Get(view.best_active, r, Inf),
                                  new_time |-> new_best[r]]]]
        sorted == SortDesc(pairs)
    IN  [i \in 1..Len(sorted) |-> sorted[i].val]

\* the Recommendation built for one inactive warehouse
MakeRec(view, w_id) ==
    LET new_best == NewBest(view, view.best_by_wh[w_id])
        new_global == _compute_global_speed(new_best, view.weights)
        marginal_abs == FSub(new_global, view.global_current)
        old_avg == _weighted_avg_time(view.best_active, view.weights)
        new_avg == _weighted_avg_time(new_best, view.weights)
    IN  [warehouse_id |-> w_id,
         warehouse_name |-> view.warehouse_names[w_id],
         marginal_abs |-> marginal_abs,
         marginal_pct |-> MarginalPct(marginal_abs, view.global_current),
         coverage_pct |-> Coverage(new_global, view.global_opt),
         global_speed_current |-> view.global_current,
         weighted_avg_time_old |-> old_avg,
         weighted_avg_time_new |-> new_avg,
         weighted_avg_time_delta |->
             IF ~FEq(old_avg, Inf) /\ ~FEq(new_avg, Inf)
             THEN FSub(new_avg, old_avg) ELSE Inf,
         region_changes |-> RegionChanges(view, new_best)]

\* the loop of recommend_next without its "continue" for active warehouses
Candidates_all(view, active) == view.wh_order

\* the warehouses the loop of recommend_next does not skip, in the iteration
\* order of best_by_wh
Candidates(view, active) ==
    SelectSeq(view.wh_order, LAMBDA w : w \notin active)

\* recs left in iteration order
SortRecs_unsorted(recs) == recs

\* recs.sort(key=lambda r: r.marginal_abs, reverse=True)
SortRecs(recs) ==
    LET sorted == SortDesc([i \in 1..Len(recs) |->
                              [key |-> recs[i].marginal_abs, val |-> recs[i]]])
    IN  [i \in 1..Len(sorted) |-> sorted[i].val]

recommend_next(view, active, top_n) ==
    LET cands == Candidates(view, active)
        recs == [i \in 1..Len(cands) |-> MakeRec(view, cands[i])]
    IN  Slice(SortRecs(recs), top_n)

\* the view after recommend_next: reading view["best_active"][r] for every
\* region, once a candidate is evaluated, leaves a key with value inf
ViewAfterRecommend(view, active) ==
    IF Candidates(view, active) = <<>> THEN view
    ELSE [view EXCEPT !.best_active =
            [r \in (DOMAIN view.best_active) \cup (DOMAIN view.region_name) |->
                Get(view.best_active, r, Inf)]]

\* ------------------------------------------------------------------ inputs
Regions == {"msk", "spb"}
RegionName == [r \in Regions |-> IF r = "msk" THEN "Moscow" ELSE "SPB"]
WarehouseIds == {StrId("1"), StrId("2")}
WarehouseName(w) == IF w.v = "1" THEN "A" ELSE "B"
Times == {None, Fin(5, 1), Fin(10, 1)}
Orders == {Fin(0, 1), Fin(100, 1), Fin(300, 1)}

SpeedRow(r, w, t) ==
    [region_code |-> r, region_name |-> RegionName[r], warehouse_id |-> w,
     warehouse_name |-> WarehouseName(w), time_hours |-> t]
SalesRow(r, o) == [region_code |-> r, orders |-> o]

SpeedRows == {SpeedRow(r, w, t) : r \in Regions, w \in WarehouseIds, t \in Times}
SalesRows == {SalesRow(r, o) : r \in Regions, o \in Orders}

SeqsUpTo(S, n) == UNION {[1..k -> S] : k \in 0..n}

\* sales tables: at most one row per region (region_code is the primary key
\* of the sales table), the rows listed in the order of RegionSeq
RegionSeq == <<"msk", "spb">>
RegionPos(r) == CHOOSE i \in 1..Len(RegionSeq) : RegionSeq[i] = r
SalesTables ==
    {s \in SeqsUpTo(SalesRows, Len(RegionSeq)) :
        \A i, j \in 1..Len(s) :
            i < j => RegionPos(s[i].region_code) < RegionPos(s[j].region_code)}

\* the inputs of test_recommendation_prefers_best_gain
TestRows ==
    <<SpeedRow("msk", IntId("1"), Fin(10, 1)), SpeedRow("msk", IntId("2"), Fin(5, 1)),
      SpeedRow("spb", IntId("1"), Fin(8, 1)), SpeedRow("spb", IntId("2"), Fin(20, 1))>>
TestActive == {IntId("1")}
TestSales == <<SalesRow("msk", Fin(100, 1)), SalesRow("spb", Fin(100, 1))>>

\* -------------------------------------------------------------------- text
\* A text is a sequence of one-character strings, so that strip(), replace(),
\* float() and the regular expressions of data_io.py act on its characters.
DigitSeq == <<"0", "1", "2", "3", "4", "5", "6", "7", "8", "9">>
Digits == {DigitSeq[i] : i \in 1..Len(DigitSeq)}
DigitVal(c) == (CHOOSE i \in 1..Len(DigitSeq) : DigitSeq[i] = c) - 1

\* characters outside ASCII are named by their code points
EnDash == "U+2013"
Cy_PE == "U+041F"
Cy_pe == "U+043F"
Cy_er == "U+0440"
Cy_i == "U+0438"
Cy_o == "U+043E"
Cy_te == "U+0442"
Cy_ie == "U+0435"
Cy_short_i == "U+0439"
Cy_ya == "U+044F"

IsSpace(c) == c = " "

RECURSIVE LStrip(_)
LStrip(s) == IF s # <<>> /\ IsSpace(Head(s)) THEN LStrip(Tail(s)) ELSE s

RECURSIVE RStrip(_)
RStrip(s) ==
    IF s # <<>> /\ IsSpace(s[Len(s)]) THEN RStrip(SubSeq(s, 1, Len(s) - 1)) ELSE s

\* s.strip()
Strip(s) == RStrip(LStrip(s))

\* s.replace(a, b) for one-character a and b
Replace(s, a, b) == [i \in 1..Len(s) |-> IF s[i] = a THEN b ELSE s[i]]

\* c.lower(): the capital letters of ASCII and of the Cyrillic alphabet
UpperSeq ==
    <<"A", "B", "C", "D", "E", "F", "G", "H", "I", "J", "K", "L", "M",
      "N", "O", "P", "Q", "R", "S", "T", "U", "V", "W", "X", "Y", "Z",
      "U+0410", "U+0411", "U+0412", "U+0413", "U+0414", "U+0415",
      "U+0416", "U+0417", "U+0418", "U+0419", "U+041A", "U+041B",
      "U+041C", "U+041D", "U+041E", "U+041F", "U+0420", "U+0421",
      "U+0422", "U+0423", "U+0424", "U+0425", "U+0426", "U+0427",
      "U+0428", "U+0429", "U+042A", "U+042B", "U+042C", "U+042D",
      "U+042E", "U+042F">>
LowerSeq ==
    <<"a", "b", "c", "d", "e", "f", "g", "h", "i", "j", "k", "l", "m",
      "n", "o", "p", "q", "r", "s", "t", "u", "v", "w", "x", "y", "z",
      "U+0430", "U+0431", "U+0432", "U+0433", "U+0434", "U+0435",
      "U+0436", "U+0437", "U+0438", "U+0439", "U+043A", "U+043B",
      "U+043C", "U+043D", "U+043E", "U+043F", "U+0440", "U+0441",
      "U+0442", "U+0443", "U+0444", "U+0445", "U+0446", "U+0447",
      "U+0448", "U+0449", "U+044A", "U+044B", "U+044C", "U+044D",
      "U+044E", "U+044F">>

LowerChar(c) ==
    IF \E i \in 1..Len(UpperSeq) : UpperSeq[i] = c
    THEN LowerSeq[CHOOSE i \in 1..Len(UpperSeq) : UpperSeq[i] = c]
    ELSE c

Lower(s) == [i \in 1..Len(s) |-> LowerChar(s[i])]

AllDigits(s) == \A i \in 1..Len(s) : s[i] \in Digits

RECURSIVE DigitsVal(_)
DigitsVal(s) ==
    IF s = <<>> THEN 0
    ELSE 10 * DigitsVal(SubSeq(s, 1, Len(s) - 1)) + DigitVal(s[Len(s)])

RECURSIVE Pow10(_)
Pow10(k) == IF k = 0 THEN 1 ELSE 10 * Pow10(k - 1)

\* float(text) raised ValueError
ValueError == [k |-> "err", n |-> 0, d |-> 1]

\* the value of digits "." digits (one of the two runs may be empty)
Decimal(ip, fp) ==
    IF AllDigits(ip) /\ AllDigits(fp) /\ Len(ip) + Len(fp) > 0
    THEN Fin(DigitsVal(ip) * Pow10(Len(fp)) + DigitsVal(fp), Pow10(Len(fp)))
    ELSE ValueError

SplitAt(t, p) == Decimal(SubSeq(t, 1, p - 1), SubSeq(t, p + 1, Len(t)))

\* the value of an unsigned, lower-cased float literal: inf, infinity, nan,
\* or digits with at most one decimal point (exponents are outside the inputs)
FloatLiteral(t) ==
    IF t \in {<<"i", "n", "f">>, <<"i", "n", "f", "i", "n", "i", "t", "y">>} THEN Inf
    ELSE IF t = <<"n", "a", "n">> THEN NaN
    ELSE IF \A i \in 1..Len(t) : t[i] # "." THEN
        (IF t # <<>> /\ AllDigits(t) THEN Fin(DigitsVal(t), 1) ELSE ValueError)
    ELSE IF Cardinality({i \in 1..Len(t) : t[i] = "."}) = 1 THEN
        SplitAt(t, CHOOSE i \in 1..Len(t) : t[i] = ".")
    ELSE ValueError

\* -x of a literal that was read, the ValueError kept
Negated(u) == IF u.k = "err" THEN u ELSE FNeg(u)

SignedLiteral(t) ==
    IF t # <<>> /\ Head(t) = "-" THEN Negated(FloatLiteral(Tail(t)))
    ELSE IF t # <<>> /\ Head(t) = "+" THEN FloatLiteral(Tail(t))
    ELSE FloatLiteral(t)

\* float(s) of Python for a text s: surrounding whitespace is ignored, an
\* optional sign, then a literal read without regard to case
PyFloat(s) == SignedLiteral(Lower(Strip(s)))

\* the decimal digits of a natural number
RECURSIVE NatText(_)
NatText(n) ==
    IF n < 10 THEN <<DigitSeq[n + 1]>>
    ELSE NatText(n \div 10) \o <<DigitSeq[(n % 10) + 1]>>

\* str(n) of an int
IntText(n) == IF n < 0 THEN <<"-">> \o NatText(-n) ELSE NatText(n)

\* str(x) of a float with at most one decimal digit: "5.0", "2.5", "-3.0",
\* "inf", "-inf", "nan"
FloatText(x) ==
    CASE x.k = "inf" -> <<"i", "n", "f">>
      [] x.k = "ninf" -> <<"-", "i", "n", "f">>
      [] x.k = "nan" -> <<"n", "a", "n">>
      [] OTHER ->
            LET tenths == (Abs(x.n) * 10) \div x.d
            IN  (IF x.n < 0 THEN <<"-">> ELSE <<>>)
                \o NatText(tenths \div 10) \o <<".">> \o NatText(tenths % 10)

\* ------------------------------------------------------------- data_io.py
\* A table is what _read_table hands to the parser: the column headers and
\* the rows, every cell as iterrows() yields it (a missing value, an int, a
\* float or a text).
NaCell == [ty |-> "na", num |-> None, txt |-> <<>>]
IntCell(n) == [ty |-> "int", num |-> Fin(n, 1), txt |-> <<>>]
FloatCell(x) == [ty |-> "float", num |-> x, txt |-> <<>>]
StrCell(t) == [ty |-> "str", num |-> None, txt |-> t]

\* pd.isna(value)
IsNa(cell) == cell.ty = "na"

\* str(value)
CellStr(cell) ==
    CASE cell.ty = "na" -> <<"n", "a", "n">>
      [] cell.ty = "int" -> IntText(cell.num.n)
      [] cell.ty = "float" -> FloatText(cell.num)
      [] OTHER -> cell.txt

HasColumn(df, h) == \E i \in 1..Len(df.columns) : df.columns[i] = h
ColumnIndex(df, h) == CHOOSE i \in 1..Len(df.columns) : df.columns[i] = h

\* the headers of the long format
H_region_code == <<"r", "e", "g", "i", "o", "n", "_", "c", "o", "d", "e">>
H_region_name == <<"r", "e", "g", "i", "o", "n", "_", "n", "a", "m", "e">>
H_warehouse_id == <<"w", "a", "r", "e", "h", "o", "u", "s", "e", "_", "i", "d">>
H_warehouse_name ==
    <<"w", "a", "r", "e", "h", "o", "u", "s", "e", "_", "n", "a", "m", "e">>
H_time_hours == <<"t", "i", "m", "e", "_", "h", "o", "u", "r", "s">>

SpeedRecord(rc, rn, wid, wn, t) ==
    [region_code |-> rc, region_name |-> rn, warehouse_id |-> wid,
     warehouse_name |-> wn, time_hours |-> t]

\* the raised ValidationError of a normaliser
NotThisFormat(fmt) == [raised |-> TRUE, rows |-> <<>>, fmt |-> fmt]

\* the <= 0 test on the parsed time, an exception giving None (lines 90-95)
PositiveOrNone(x) ==
    IF x.k = "err" THEN None
    ELSE IF FLe(x, Zero) THEN None
    ELSE x

\* float(str(time).replace(",", ".")) with that test (lines 88-95, 175-182)
ParsedTime(cell) == PositiveOrNone(PyFloat(Replace(CellStr(cell), ",", ".")))

\* the time of a cell of the long format
LongTime(cell) == IF IsNa(cell) THEN None ELSE ParsedTime(cell)

\* str(row[h]).strip()
Field(df, i, h) == Strip(CellStr(df.rows[i][ColumnIndex(df, h)]))

_normalize_long(df) ==
    IF ~ \A h \in {H_region_code, H_region_name, H_warehouse_id,
                   H_warehouse_name, H_time_hours} : HasColumn(df, h)
    THEN NotThisFormat("long")
    ELSE [raised |-> FALSE,
          rows |-> [i \in 1..Len(df.rows) |->
              SpeedRecord(Field(df, i, H_region_code), Field(df, i, H_region_name),
                          Field(df, i, H_warehouse_id), Field(df, i, H_warehouse_name),
                          LongTime(df.rows[i][ColumnIndex(df, H_time_hours)]))],
          fmt |-> "long"]

\* t[p], or "" past the end of the text
At(t, p) == IF p \in 1..Len(t) THEN t[p] ELSE ""

\* the first position from p on that holds no whitespace (\s* is greedy)
RECURSIVE SkipSpaces(_, _)
SkipSpaces(t, p) == IF IsSpace(At(t, p)) THEN SkipSpaces(t, p + 1) ELSE p

\* the last position of the run of digits that starts at q
RECURSIVE DigitRunEnd(_, _)
DigitRunEnd(t, q) == IF At(t, q + 1) \in Digits THEN DigitRunEnd(t, q + 1) ELSE q

\* the last position of [0-9]+(?:[.,][0-9]+)? starting at q
NumberEnd(t, q) ==
    LET e == DigitRunEnd(t, q)
    IN  IF At(t, e + 1) \in {".", ","} /\ At(t, e + 2) \in Digits
        THEN DigitRunEnd(t, e + 2) ELSE e

\* the position after an optional character of the set cs at p
SkipOne(t, p, cs) == IF At(t, p) \in cs THEN p + 1 ELSE p

\* <priority> at p: the nine letters of the Russian word
PriorityWordAt(t, p) ==
    /\ p + 8 <= Len(t)
    /\ SubSeq(t, p, p + 8) = <<Cy_pe, Cy_er, Cy_i, Cy_o, Cy_er, Cy_i, Cy_te, Cy_ie, Cy_te>>

\* after the digits: \s*[-U+2013]?[U+0439 U+044F]?\s*<priority>
AfterDigits(t, e) ==
    PriorityWordAt(t,
        SkipSpaces(t, SkipOne(t, SkipOne(t, SkipSpaces(t, e + 1), {"-", EnDash}),
                              {Cy_short_i, Cy_ya})))

DigitsThenWord(t, p) == At(t, p) \in Digits /\ AfterDigits(t, DigitRunEnd(t, p))

\* PRIORITY_COL_RE.search(h): ^\s*\d+\s*[-U+2013]?[U+0439 U+044F]?\s*<priority>, any case
PRIORITY_COL_RE(h) == DigitsThenWord(Lower(h), SkipSpaces(Lower(h), 1))

\* PRIORITY_RE_PRIMARY at name t[i..j]: \s*[,;U+2013-]\s* and a digit follow
SeparatorThenDigit(t, p) ==
    At(t, p) \in {",", ";", EnDash, "-"} /\ At(t, SkipSpaces(t, p + 1)) \in Digits

PrimaryAt(t, i, j) == SeparatorThenDigit(t, SkipSpaces(t, j + 1))

\* PRIORITY_RE_FALLBACK at name t[i..j]: \s+ and a digit follow
FallbackAt(t, i, j) ==
    IsSpace(At(t, j + 1)) /\ At(t, SkipSpaces(t, j + 1)) \in Digits

NoMatch == [found |-> FALSE, name |-> <<>>, number |-> <<>>]

\* the least number of a non-empty set
Least(S) == CHOOSE a \in S : \A b \in S : a <= b

\* the match with the name t[i..j] and the number that starts at q
MatchAt(t, i, j, q) ==
    [found |-> TRUE, name |-> SubSeq(t, i, j), number |-> SubSeq(t, q, NumberEnd(t, q))]

\* search with a lazy first group: the leftmost start, then the shortest name
PrimaryFrom(t, i, j) == MatchAt(t, i, j, SkipSpaces(t, SkipSpaces(t, j + 1) + 1))
PrimaryShortest(t, i) ==
    PrimaryFrom(t, i, Least({j \in i..Len(t) : PrimaryAt(t, i, j)}))
PrimarySearch(t) ==
    IF \A i \in 1..Len(t) : \A j \in i..Len(t) : ~ PrimaryAt(t, i, j) THEN NoMatch
    ELSE PrimaryShortest(t, Least({i \in 1..Len(t) :
                                      \E j \in i..Len(t) : PrimaryAt(t, i, j)}))

FallbackFrom(t, i, j) == MatchAt(t, i, j, SkipSpaces(t, j + 1))
FallbackShortest(t, i) ==
    FallbackFrom(t, i, Least({j \in i..Len(t) : FallbackAt(t, i, j)}))
FallbackSearch(t) ==
    IF \A i \in 1..Len(t) : \A j \in i..Len(t) : ~ FallbackAt(t, i, j) THEN NoMatch
    ELSE FallbackShortest(t, Least({i \in 1..Len(t) :
                                       \E j \in i..Len(t) : FallbackAt(t, i, j)}))

\* m = PRIORITY_RE_PRIMARY.search(txt) or PRIORITY_RE_FALLBACK.search(txt)
FirstFound(m1, txt) == IF m1.found THEN m1 ELSE FallbackSearch(txt)

NameAndHours(name, hours) ==
    [has_name |-> TRUE, name |-> name,
     hours |-> IF FLe(hours, Zero) THEN None ELSE hours]

FromMatch(m, txt) ==
    IF ~ m.found THEN [has_name |-> TRUE, name |-> txt, hours |-> None]
    ELSE NameAndHours(Strip(m.name), PyFloat(Replace(m.number, ",", ".")))

FromText(txt) ==
    IF txt = <<>> THEN [has_name |-> FALSE, name |-> <<>>, hours |-> None]
    ELSE FromMatch(FirstFound(PrimarySearch(txt), txt), txt)

\* (name, hours); has_name is FALSE where the code returns None for the name
_parse_priority_cell(value) ==
    IF IsNa(value) THEN [has_name |-> FALSE, name |-> <<>>, hours |-> None]
    ELSE FromText(Strip(CellStr(value)))

\* "region_name" if "region_name" in df.columns else df.columns[0]
RegionColumn(df) ==
    IF HasColumn(df, H_region_name) THEN ColumnIndex(df, H_region_name) ELSE 1

\* the concatenation of the lists f[1], ..., f[n]
RECURSIVE Flatten(_, _)
Flatten(f, n) == IF n = 0 THEN <<>> ELSE Flatten(f, n - 1) \o f[n]

\* the indices of the columns that satisfy a test, in column order
ColumnsWhere(df, Test(_)) ==
    SelectSeq([c \in 1..Len(df.columns) |-> c], LAMBDA c : Test(df.columns[c]))

\* a normaliser's result: no rows raise ValidationError
RowsOrRaise(rows, fmt) ==
    IF rows = <<>> THEN NotThisFormat(fmt)
    ELSE [raised |-> FALSE, rows |-> rows, fmt |-> fmt]

\* rows without a region_code or a warehouse_id carry the empty text there:
\* _finalize_records treats None and "" alike (not row.get(...))
PriorityRecord(region_name, cell) ==
    IF region_name = <<>> \/ ~ cell.has_name THEN <<>>
    ELSE <<SpeedRecord(<<>>, region_name, <<>>, cell.name, cell.hours)>>

PriorityRowsOf(df, region_col, priority_cols) ==
    Flatten([i \in 1..Len(df.rows) |->
                Flatten([k \in 1..Len(priority_cols) |->
                            PriorityRecord(Strip(CellStr(df.rows[i][region_col])),
                                           _parse_priority_cell(df.rows[i][priority_cols[k]]))],
                        Len(priority_cols))],
            Len(df.rows))

PriorityWith(df, priority_cols) ==
    IF priority_cols = <<>> THEN NotThisFormat("priority_wide")
    ELSE RowsOrRaise(PriorityRowsOf(df, RegionColumn(df), priority_cols), "priority_wide")

_normalize_priority_wide(df) == PriorityWith(df, ColumnsWhere(df, PRIORITY_COL_RE))

\* the time of a cell of the wide matrix
MatrixTime(raw_time) ==
    IF IsNa(raw_time) \/ Strip(CellStr(raw_time)) = <<>> THEN None
    ELSE ParsedTime(raw_time)

MatrixRecord(region_name, warehouse_name, raw_time) ==
    IF region_name = <<>> \/ warehouse_name = <<>> THEN <<>>
    ELSE <<SpeedRecord(<<>>, region_name, <<>>, warehouse_name, MatrixTime(raw_time))>>

\* df.melt(...): one row per value column and table row, column by column
MatrixRowsOf(df, region_col, value_cols) ==
    Flatten([k \in 1..Len(value_cols) |->
                Flatten([i \in 1..Len(df.rows) |->
                            MatrixRecord(Strip(CellStr(df.rows[i][region_col])),
                                         Strip(df.columns[value_cols[k]]),
                                         df.rows[i][value_cols[k]])],
                        Len(df.rows))],
            Len(value_cols))

NotRegionColumn(df, region_col) ==
    SelectSeq([c \in 1..Len(df.columns) |-> c],
              LAMBDA c : df.columns[c] # df.columns[region_col])

MatrixWith(df, region_col) ==
    RowsOrRaise(MatrixRowsOf(df, region_col, NotRegionColumn(df, region_col)),
                "wide_matrix")

_normalize_wide_matrix(df) ==
    IF Len(df.columns) < 2 THEN NotThisFormat("wide_matrix")
    ELSE MatrixWith(df, RegionColumn(df))

\* the characters that survive .encode("ascii", "ignore")
LowerLetters ==
    {"a", "b", "c", "d", "e", "f", "g", "h", "i", "j", "k", "l", "m", "n", "o",
     "p", "q", "r", "s", "t", "u", "v", "w", "x", "y", "z"}
AsciiChars ==
    Digits \cup LowerLetters
        \cup {"A", "B", "F", "I", "N", " ", ",", ".", ";", "-", "+", "_"}
SlugChars == Digits \cup LowerLetters

\* re.sub(r"[^a-z0-9]+", "_", s).strip("_"): the runs of other characters
\* between two kept characters become one "_", those at the ends vanish
RECURSIVE SlugJoin(_, _, _)
SlugJoin(s, started, gap) ==
    IF s = <<>> THEN <<>>
    ELSE IF Head(s) \in SlugChars THEN
        (IF started /\ gap THEN <<"_">> ELSE <<>>)
        \o <<Head(s)>> \o SlugJoin(Tail(s), TRUE, FALSE)
    ELSE SlugJoin(Tail(s), started, TRUE)

SlugOrItem(cleaned) == IF cleaned = <<>> THEN <<"i", "t", "e", "m">> ELSE cleaned

_slugify(value) ==
    SlugOrItem(SlugJoin(Lower(SelectSeq(value, LAMBDA c : c \in AsciiChars)),
                        FALSE, FALSE))

\* base_i for the least i >= from with base_i not in seen
RECURSIVE NumberedSlug(_, _, _)
NumberedSlug(base, seen, i) ==
    IF (base \o <<"_">> \o NatText(i)) \in seen THEN NumberedSlug(base, seen, i + 1)
    ELSE base \o <<"_">> \o NatText(i)

_unique_slug(base, seen) == IF base \notin seen THEN base ELSE NumberedSlug(base, seen, 1)

\* name -> slug added to a (seen, map) pair unless the name is mapped
WithSlug(sm, name, slug) ==
    IF name \in DOMAIN sm.map THEN sm
    ELSE [seen |-> sm.seen \cup {slug}, map |-> Put(sm.map, name, slug)]

AddName(sm, name) == WithSlug(sm, name, _unique_slug(_slugify(name), sm.seen))

\* the first loop of _finalize_records: region_map and wh_map
RECURSIVE SlugMaps(_, _, _, _)
SlugMaps(rows, i, regions, whs) ==
    IF i > Len(rows) THEN [region_map |-> regions.map, wh_map |-> whs.map]
    ELSE SlugMaps(rows, i + 1, AddName(regions, rows[i].region_name),
                  AddName(whs, rows[i].warehouse_name))

\* the second loop: the empty codes are taken from the maps
FillCodes(rows, m) ==
    [i \in 1..Len(rows) |->
        [rows[i] EXCEPT
            !.region_code = IF rows[i].region_code = <<>>
                            THEN m.region_map[rows[i].region_name] ELSE @,
            !.warehouse_id = IF rows[i].warehouse_id = <<>>
                             THEN m.wh_map[rows[i].warehouse_name] ELSE @]]

_finalize_records(rows) ==
    FillCodes(rows, SlugMaps(rows, 1, [seen |-> {}, map |-> EmptyDict],
                             [seen |-> {}, map |-> EmptyDict]))

\* the ParseResult of the rows a normaliser returned
ParseResult(got) ==
    IF got.raised THEN [raised |-> TRUE, records |-> <<>>, detected_format |-> "none"]
    ELSE [raised |-> FALSE, records |-> _finalize_records(got.rows),
          detected_format |-> got.fmt]

\* try: ... except ValidationError: the next normaliser
OrElseWide(priority, df) == IF ~ priority.raised THEN priority ELSE _normalize_wide_matrix(df)
OrElsePriority(long, df) ==
    IF ~ long.raised THEN long ELSE OrElseWide(_normalize_priority_wide(df), df)

\* parse_speeds after _read_table: long, else priority-wide, else wide-matrix
parse_speeds(df) == ParseResult(OrElsePriority(_normalize_long(df), df))

\* --------------------------------------------------------------------- db.py
\* the tables of a fresh database (SCHEMA_SQL); speeds_order and sales_order
\* list the keys of speeds and sales in rowid order, the order of their
\* first insertion; active is the key set of active_warehouses
EmptyDb ==
    [regions |-> EmptyDict, warehouses |-> EmptyDict, speeds |-> EmptyDict,
     speeds_order |-> <<>>, sales |-> EmptyDict, sales_order |-> <<>>,
     active |-> {}]

\* a float bound to a REAL column: SQLite stores NaN as NULL
Stored(t) == IF t.k = "nan" THEN None ELSE t

\* the state of one connection inside "with self.tx() as conn": the tables
\* as the statements run so far have left them, and whether one has raised
Running(d) == [raised |-> FALSE, db |-> d]
Failed(d) == [raised |-> TRUE, db |-> d]

\* tx committing in the finally branch, whether the body raised or not
tx_commit_in_finally(d, body) == body.db

\* tx: conn.commit() runs only when the body did not raise; closing the
\* connection without a commit discards what the statements have changed
tx(d, body) == IF body.raised THEN d ELSE body.db

\* INSERT INTO regions ... ON CONFLICT(region_code) DO UPDATE
UpsertRegion(d, rec) ==
    [d EXCEPT !.regions = Put(d.regions, rec.region_code, rec.region_name)]

\* INSERT INTO warehouses ... ON CONFLICT(warehouse_id) DO UPDATE
UpsertWarehouse(d, rec) ==
    [d EXCEPT !.warehouses = Put(d.warehouses, rec.warehouse_id, rec.warehouse_name)]

\* INSERT INTO speeds ... ON CONFLICT(region_code, warehouse_id) DO UPDATE
UpsertSpeed(d, rec) ==
    LET key == <<rec.region_code, rec.warehouse_id>>
    IN  [d EXCEPT !.speeds = Put(d.speeds, key, Stored(rec.time_hours)),
                  !.speeds_order = Touch(d.speeds_order, key)]

\* the three statements run for one record: each INSERT ... ON CONFLICT ...
\* DO UPDATE overwrites the row that has the same key
UpsertOne(d, rec) == UpsertSpeed(UpsertWarehouse(UpsertRegion(d, rec), rec), rec)

\* Python's None where a text is expected (no text has an element that is
\* not a single character)
NoneText == <<"None">>

\* the statements of one record on the connection: a None bound to a
\* NOT NULL column raises IntegrityError, after the statements before it ran
UpsertStatements(d, rec) ==
    IF rec.region_code = NoneText \/ rec.region_name = NoneText THEN Failed(d)
    ELSE IF rec.warehouse_id = NoneText \/ rec.warehouse_name = NoneText
         THEN Failed(UpsertRegion(d, rec))
    ELSE Running(UpsertOne(d, rec))

RECURSIVE UpsertFrom(_, _, _)
UpsertFrom(conn, records, i) ==
    IF conn.raised \/ i > Len(records) THEN conn
    ELSE UpsertFrom(UpsertStatements(conn.db, records[i]), records, i + 1)

\* the body of upsert_speeds on its connection
UpsertBody(d, records) == UpsertFrom(Running(d), records, 1)

upsert_speeds(d, records) == tx(d, UpsertBody(d, records))

\* DELETE FROM sales
DeleteSales(d) == [d EXCEPT !.sales = EmptyDict, !.sales_order = <<>>]

\* INSERT INTO sales(region_code, orders_int): region_code is the primary
\* key and references regions, orders_int is NOT NULL
InsertSale(d, rec) ==
    IF rec.region_code \notin DOMAIN d.regions
          \/ rec.region_code \in DOMAIN d.sales \/ rec.orders = None
    THEN Failed(d)
    ELSE Running([d EXCEPT !.sales = Put(d.sales, rec.region_code, rec.orders),
                           !.sales_order = Append(d.sales_order, rec.region_code)])

RECURSIVE InsertSalesFrom(_, _, _)
InsertSalesFrom(conn, records, i) ==
    IF conn.raised \/ i > Len(records) THEN conn
    ELSE InsertSalesFrom(InsertSale(conn.db, records[i]), records, i + 1)

\* the body of replace_sales on its connection
ReplaceSalesBody(d, records) == InsertSalesFrom(Running(DeleteSales(d)), records, 1)

replace_sales(d, records) == tx(d, ReplaceSalesBody(d, records))

\* the insert replacing the rows of active_warehouses by the new id
InsertActive_replacing(d, w_id) ==
    IF w_id \notin DOMAIN d.warehouses THEN Failed(d)
    ELSE Running([d EXCEPT !.active = {w_id}])

\* INSERT OR IGNORE INTO active_warehouses: an id already there is ignored,
\* an id that is not in warehouses fails the foreign key
InsertActive(d, w_id) ==
    IF w_id \notin DOMAIN d.warehouses THEN Failed(d)
    ELSE Running([d EXCEPT !.active = d.active \cup {w_id}])

RECURSIVE InsertActiveFrom(_, _, _)
InsertActiveFrom(conn, ids, i) ==
    IF conn.raised \/ i > Len(ids) THEN conn
    ELSE InsertActiveFrom(InsertActive(conn.db, ids[i]), ids, i + 1)

\* the body of set_active: DELETE FROM active_warehouses, then the inserts
SetActiveBody(d, ids) == InsertActiveFrom(Running([d EXCEPT !.active = {}]), ids, 1)

set_active(d, ids) == tx(d, SetActiveBody(d, ids))

add_active(d, w_id) == tx(d, InsertActive(d, w_id))

\* DELETE FROM active_warehouses WHERE warehouse_id=?
remove_active(d, w_id) == tx(d, Running([d EXCEPT !.active = d.active \ {w_id}]))

\* {str(r[0]) for r in rows}
db_active_ids(d) == {StrId(w) : w \in d.active}

\* SELECT region_code, orders_int AS orders FROM sales, in rowid order
db_sales_rows(d) ==
    [i \in 1..Len(d.sales_order) |->
        [region_code |-> d.sales_order[i], orders |-> d.sales[d.sales_order[i]]]]

\* SELECT ... FROM speeds s JOIN regions r ... JOIN warehouses w ...: one row
\* per key of speeds, read in rowid order; the TEXT ids come back as str
db_speeds_rows(d) ==
    [i \in 1..Len(d.speeds_order) |->
        LET key == d.speeds_order[i]
        IN  SpeedRecord(key[1], d.regions[key[1]], StrId(key[2]),
                        d.warehouses[key[2]], d.speeds[key])]

\* SELECT COUNT(*) FROM speeds
has_data(d) == d.speeds_order # <<>>

\* ------------------------------------------------------------ uploaded tables
MaxTableRows == 2

T_msk == <<"m", "s", "k">>
T_spb == <<"s", "p", "b">>
T_priority1 ==
    <<"1", "-", Cy_short_i, " ", Cy_pe, Cy_er, Cy_i, Cy_o, Cy_er, Cy_i, Cy_te,
      Cy_ie, Cy_te>>

RegionCells == {StrCell(T_msk), StrCell(T_spb)}
IdCells == {IntCell(1), IntCell(2)}
NameOfId(c) == IF c = IntCell(1) THEN StrCell(<<"A">>) ELSE StrCell(<<"B">>)

\* the cells of a time column: missing, numbers (positive, zero, negative,
\* infinite) and texts (decimal comma, not a number, "NAN", blank)
TimeCells ==
    {NaCell, IntCell(5), IntCell(10), IntCell(0), IntCell(-3),
     FloatCell(Fin(5, 2)), FloatCell(Inf),
     StrCell(<<"2", ",", "5">>), StrCell(<<"a", "b", "c">>),
     StrCell(<<"N", "A", "N">>), StrCell(<<" ">>)}

\* the cells of a priority column: "A, 28", "B 31.6", "A-0", "A", missing
PriorityCells ==
    {NaCell, StrCell(<<"A", ",", " ", "2", "8">>),
     StrCell(<<"B", " ", "3", "1", ".", "6">>),
     StrCell(<<"A", "-", "0">>), StrCell(<<"A">>)}

LongColumns ==
    <<H_region_code, H_region_name, H_warehouse_id, H_warehouse_name, H_time_hours>>
PriorityColumns == <<H_region_name, T_priority1>>
MatrixColumns == <<H_region_name, <<"A">>>>
UnknownColumns == <<<<"a">>, <<"b">>>>
SingleColumn == <<<<"a">>>>

LongRows == {<<r, r, w, NameOfId(w), t>> : r \in RegionCells, w \in IdCells, t \in TimeCells}
PriorityRows == RegionCells \X PriorityCells
MatrixRows == (RegionCells \cup {IntCell(1)}) \X TimeCells
SingleRows == {<<IntCell(1)>>}

Table(columns, rows) == [columns |-> columns, rows |-> rows]

\* the table of test_parse_speeds_rejects_unknown_format
TestUnknownTable == Table(UnknownColumns, <<<<IntCell(1), IntCell(2)>>>>)

\* the tables of at most n rows, and the test's table
Tables(n) ==
    {Table(LongColumns, rows) : rows \in SeqsUpTo(LongRows, n)}
    \cup {Table(PriorityColumns, rows) : rows \in SeqsUpTo(PriorityRows, n)}
    \cup {Table(MatrixColumns, rows) : rows \in SeqsUpTo(MatrixRows, n)}
    \cup {Table(UnknownColumns, rows) : rows \in SeqsUpTo(MatrixRows, n)}
    \cup {Table(SingleColumn, rows) : rows \in SeqsUpTo(SingleRows, n)}
    \cup {TestUnknownTable}

NoTable == Table(<<>>, <<>>)
NoParse == [raised |-> FALSE, records |-> <<>>, detected_format |-> "none"]

\* --------------------------------------------------- wbbot/report_parser.py
\* k in text
Contains(text, k) ==
    \E i \in 1..(Len(text) - Len(k) + 1) : SubSeq(text, i, i + Len(k) - 1) = k

\* text.startswith(k)
StartsWith(text, k) == Len(k) <= Len(text) /\ SubSeq(text, 1, Len(k)) = k

\* re.sub(r"\s+", " ", text): every run of whitespace becomes one space
RECURSIVE Squeeze(_)
Squeeze(s) ==
    IF s = <<>> THEN <<>>
    ELSE IF IsSpace(Head(s)) THEN <<" ">> \o Squeeze(LStrip(s))
    ELSE <<Head(s)>> \o Squeeze(Tail(s))

\* _norm(value)
_norm(value) == Squeeze(Lower(Strip(CellStr(value))))

\* the float, or None after a ValueError (the empty text raises it too)
NumberOrNone(x) == IF x.k = "err" THEN None ELSE x

\* _to_number(value); None where the code returns None
_to_number(value) ==
    IF IsNa(value) THEN None
    ELSE IF value.ty \in {"int", "float"} THEN value.num
    ELSE NumberOrNone(PyFloat(Replace(SelectSeq(Strip(value.txt), LAMBDA c : c # " "),
                                      ",", ".")))

\* METRIC_KEYWORDS: the keys in their order, and for each key what the loop
\* "for k in keys" runs over ("storage" is a str, not a tuple: its keys are
\* the characters of the word)
MetricNames ==
    <<"sales", "payout_goods", "fines", "storage", "logistics", "deductions", "total_payment", "tax", "cost_price">>

\* sales: realiz, prodazh, vyruchk
K_sales ==
    <<<<"U+0440", "U+0435", "U+0430", "U+043B", "U+0438", "U+0437">>,
      <<"U+043F", "U+0440", "U+043E", "U+0434", "U+0430", "U+0436">>,
      <<"U+0432", "U+044B", "U+0440", "U+0443", "U+0447", "U+043A">>>>

\* payout_goods: k perechisleniyu za tovar, perechisleniyu za tovar, k perechisleniyu
K_payout_goods ==
    <<<<"U+043A", " ", "U+043F", "U+0435", "U+0440", "U+0435", "U+0447",
      "U+0438", "U+0441", "U+043B", "U+0435", "U+043D", "U+0438",
      "U+044E", " ", "U+0437", "U+0430", " ", "U+0442", "U+043E",
      "U+0432", "U+0430", "U+0440">>,
      <<"U+043F", "U+0435", "U+0440", "U+0435", "U+0447", "U+0438",
      "U+0441", "U+043B", "U+0435", "U+043D", "U+0438", "U+044E", " ",
      "U+0437", "U+0430", " ", "U+0442", "U+043E", "U+0432", "U+0430",
      "U+0440">>,
      <<"U+043A", " ", "U+043F", "U+0435", "U+0440", "U+0435", "U+0447",
      "U+0438", "U+0441", "U+043B", "U+0435", "U+043D", "U+0438",
      "U+044E">>>>

\* fines: shtraf, neustoj
K_fines ==
    <<<<"U+0448", "U+0442", "U+0440", "U+0430", "U+0444">>,
      <<"U+043D", "U+0435", "U+0443", "U+0441", "U+0442", "U+043E",
      "U+0439">>>>

\* storage: kh, r, a, n, e, n, i
K_storage ==
    <<<<"U+0445">>,
      <<"U+0440">>,
      <<"U+0430">>,
      <<"U+043D">>,
      <<"U+0435">>,
      <<"U+043D">>,
      <<"U+0438">>>>

\* logistics: logist, dostavk, perevoz
K_logistics ==
    <<<<"U+043B", "U+043E", "U+0433", "U+0438", "U+0441", "U+0442">>,
      <<"U+0434", "U+043E", "U+0441", "U+0442", "U+0430", "U+0432",
      "U+043A">>,
      <<"U+043F", "U+0435", "U+0440", "U+0435", "U+0432", "U+043E",
      "U+0437">>>>

\* deductions: uderzhan, prochie vyplaty, prochie uderzhaniya, kompensats
K_deductions ==
    <<<<"U+0443", "U+0434", "U+0435", "U+0440", "U+0436", "U+0430",
      "U+043D">>,
      <<"U+043F", "U+0440", "U+043E", "U+0447", "U+0438", "U+0435", " ",
      "U+0432", "U+044B", "U+043F", "U+043B", "U+0430", "U+0442",
      "U+044B">>,
      <<"U+043F", "U+0440", "U+043E", "U+0447", "U+0438", "U+0435", " ",
      "U+0443", "U+0434", "U+0435", "U+0440", "U+0436", "U+0430",
      "U+043D", "U+0438", "U+044F">>,
      <<"U+043A", "U+043E", "U+043C", "U+043F", "U+0435", "U+043D",
      "U+0441", "U+0430", "U+0446">>>>

\* total_payment: itogo k oplate, k oplate, itogo k perechisleniyu, itogo
K_total_payment ==
    <<<<"U+0438", "U+0442", "U+043E", "U+0433", "U+043E", " ", "U+043A",
      " ", "U+043E", "U+043F", "U+043B", "U+0430", "U+0442", "U+0435">>,
      <<"U+043A", " ", "U+043E", "U+043F", "U+043B", "U+0430", "U+0442",
      "U+0435">>,
      <<"U+0438", "U+0442", "U+043E", "U+0433", "U+043E", " ", "U+043A",
      " ", "U+043F", "U+0435", "U+0440", "U+0435", "U+0447", "U+0438",
      "U+0441", "U+043B", "U+0435", "U+043D", "U+0438", "U+044E">>,
      <<"U+0438", "U+0442", "U+043E", "U+0433", "U+043E">>>>

\* tax: nalog
K_tax ==
    <<<<"U+043D", "U+0430", "U+043B", "U+043E", "U+0433">>>>

\* cost_price: sebestoim
K_cost_price ==
    <<<<"U+0441", "U+0435", "U+0431", "U+0435", "U+0441", "U+0442",
      "U+043E", "U+0438", "U+043C">>>>

METRIC_KEYWORDS(metric) ==
    CASE metric = "sales" -> K_sales
      [] metric = "payout_goods" -> K_payout_goods
      [] metric = "fines" -> K_fines
      [] metric = "storage" -> K_storage
      [] metric = "logistics" -> K_logistics
      [] metric = "deductions" -> K_deductions
      [] metric = "total_payment" -> K_total_payment
      [] metric = "tax" -> K_tax
      [] metric = "cost_price" -> K_cost_price

\* any(k in text for k in keys)
AnyKeyIn(metric, text) ==
    \E i \in 1..Len(METRIC_KEYWORDS(metric)) : Contains(text, METRIC_KEYWORDS(metric)[i])

\* the headers and the labels of the summary table of test_report_parser.py
\* data
R_date ==
    <<"U+0414", "U+0430", "U+0442", "U+0430">>
\* pokazatel_
R_label ==
    <<"U+041F", "U+043E", "U+043A", "U+0430", "U+0437", "U+0430",
      "U+0442", "U+0435", "U+043B", "U+044C">>
\* summa
R_amount ==
    <<"U+0421", "U+0443", "U+043C", "U+043C", "U+0430">>
\* realizovano
R_sold ==
    <<"U+0420", "U+0435", "U+0430", "U+043B", "U+0438", "U+0437",
      "U+043E", "U+0432", "U+0430", "U+043D", "U+043E">>
\* khranenie
R_storage ==
    <<"U+0425", "U+0440", "U+0430", "U+043D", "U+0435", "U+043D",
      "U+0438", "U+0435">>
\* logistika
R_logistics ==
    <<"U+041B", "U+043E", "U+0433", "U+0438", "U+0441", "U+0442",
      "U+0438", "U+043A", "U+0430">>
\* uderzhaniya
R_deductions ==
    <<"U+0423", "U+0434", "U+0435", "U+0440", "U+0436", "U+0430",
      "U+043D", "U+0438", "U+044F">>
\* nalog
R_tax ==
    <<"U+041D", "U+0430", "U+043B", "U+043E", "U+0433">>
\* sebestoimost_
R_cost ==
    <<"U+0421", "U+0435", "U+0431", "U+0435", "U+0441", "U+0442",
      "U+043E", "U+0438", "U+043C", "U+043E", "U+0441", "U+0442",
      "U+044C">>
\* k perechisleniyu za tovar
L_payout ==
    <<"U+041A", " ", "U+043F", "U+0435", "U+0440", "U+0435", "U+0447",
      "U+0438", "U+0441", "U+043B", "U+0435", "U+043D", "U+0438",
      "U+044E", " ", "U+0437", "U+0430", " ", "U+0442", "U+043E",
      "U+0432", "U+0430", "U+0440">>
\* shtrafy
L_fines ==
    <<"U+0428", "U+0442", "U+0440", "U+0430", "U+0444", "U+044B">>
\* prochee
L_other ==
    <<"U+041F", "U+0440", "U+043E", "U+0447", "U+0435", "U+0435">>
\* 01.01.2026
L_date1 ==
    <<"0", "1", ".", "0", "1", ".", "2", "0", "2", "6">>
\* 31.01.2026
L_date2 ==
    <<"3", "1", ".", "0", "1", ".", "2", "0", "2", "6">>
\* unnamed
L_unnamed ==
    <<"u", "n", "n", "a", "m", "e", "d">>

\* |x| of a float
FAbs(x) == IF x.k = "ninf" THEN Inf ELSE IF IsFin(x) /\ x.n < 0 THEN FNeg(x) ELSE x

\* max(values, key=abs) on a non-empty list: the first element no later one
\* exceeds
FirstMaxAbs(values) ==
    values[CHOOSE i \in 1..Len(values) :
              /\ \A j \in 1..Len(values) : ~ FLt(FAbs(values[i]), FAbs(values[j]))
              /\ \A j \in 1..(i - 1) : FLt(FAbs(values[j]), FAbs(values[i]))]

\* sum(values), starting from 0
RECURSIVE SumSeq(_)
SumSeq(values) ==
    IF values = <<>> THEN Zero ELSE FAdd(Head(values), SumSeq(Tail(values)))

\* " ".join(texts)
RECURSIVE JoinTexts(_)
JoinTexts(texts) ==
    IF texts = <<>> THEN <<>>
    ELSE IF Len(texts) = 1 THEN texts[1]
    ELSE texts[1] \o <<" ">> \o JoinTexts(Tail(texts))

\* clean = df.copy() with normalised headers and without the all-NA rows
CleanFrame(frame) ==
    [columns |-> [c \in 1..Len(frame.columns) |-> _norm(StrCell(frame.columns[c]))],
     rows |-> SelectSeq(frame.rows,
                        LAMBDA row : \E c \in 1..Len(row) : ~ IsNa(row[c]))]

\* the numbers of a list of cells: map(_to_number) without the None results
Numbers(cells) ==
    SelectSeq([c \in 1..Len(cells) |-> _to_number(cells[c])], LAMBDA x : x # None)

\* column-based extraction: the sum of every column whose header holds a key
ColumnSum(numeric) == IF numeric # <<>> THEN <<SumSeq(numeric)>> ELSE <<>>

ColumnCandidates(clean, metric) ==
    LET one(c) ==
            IF /\ ~ StartsWith(clean.columns[c], L_unnamed)
               /\ AnyKeyIn(metric, clean.columns[c])
            THEN ColumnSum(Numbers([i \in 1..Len(clean.rows) |-> clean.rows[i][c]]))
            ELSE <<>>
    IN  Flatten([c \in 1..Len(clean.columns) |-> one(c)], Len(clean.columns))

\* row-based extraction: for every row whose text cells hold a key, the
\* number of the row with the largest absolute value
NormAll(cells) == [k \in 1..Len(cells) |-> _norm(cells[k])]

RowText(row) == JoinTexts(NormAll(SelectSeq(row, LAMBDA v : v.ty = "str")))

RowValue(row) == FirstMaxAbs(Numbers(row))

RowCandidates(clean, metric) ==
    LET one(i) ==
            IF Numbers(clean.rows[i]) # <<>> /\ AnyKeyIn(metric, RowText(clean.rows[i]))
            THEN <<RowValue(clean.rows[i])>> ELSE <<>>
    IN  Flatten([i \in 1..Len(clean.rows) |-> one(i)], Len(clean.rows))

\* what one frame adds to candidates[metric]
FrameCandidates(clean, metric) ==
    ColumnCandidates(clean, metric) \o RowCandidates(clean, metric)

\* candidates[metric] after the loop over the frames
Candidates_of(frames, metric) ==
    Flatten([f \in 1..Len(frames) |-> FrameCandidates(CleanFrame(frames[f]), metric)],
            Len(frames))

\* result: for every metric with candidates the one largest in absolute value
PickLargest(candidates) ==
    [m \in {x \in DOMAIN candidates : candidates[x] # <<>>} |->
        FirstMaxAbs(candidates[m])]

_extract_metrics(frames) ==
    PickLargest([m \in {MetricNames[i] : i \in 1..Len(MetricNames)} |->
                    Candidates_of(frames, m)])

\* the notes as tags: "high_fines", "negative_net", "ok"
_build_notes(metrics) ==
    LET sales == Get(metrics, "sales", None)
        fines == Get(metrics, "fines", None)
        net == Get(metrics, "net_profit", None)
        high == /\ sales \notin {None, Zero}
                /\ fines \notin {None, Zero}
                /\ FGt(FDiv(FAbs(fines), FAbs(sales)), Fin(5, 100))
        neg == net # None /\ FLt(net, Zero)
    IN  (IF high THEN <<"high_fines">> ELSE <<>>)
        \o (IF neg THEN <<"negative_net">> ELSE <<>>)
        \o (IF ~ high /\ ~ neg THEN <<"ok">> ELSE <<>>)

\* metrics["net_profit"] where _extract_metrics found none (lines 141-157)
NetProfit(m) ==
    IF "total_payment" \in DOMAIN m
    THEN FSub(FSub(m["total_payment"], Get(m, "tax", Zero)), Get(m, "cost_price", Zero))
    ELSE FSub(FSub(FSub(FSub(FSub(FSub(Get(m, "payout_goods", Zero),
            Get(m, "fines", Zero)), Get(m, "storage", Zero)),
            Get(m, "logistics", Zero)), Get(m, "deductions", Zero)),
            Get(m, "tax", Zero)), Get(m, "cost_price", Zero))

\* ParsedReport(metrics=metrics, notes=_build_notes(metrics))
ParsedReport(metrics) == [metrics |-> metrics, notes |-> _build_notes(metrics)]

WithNetProfit(m) == ParsedReport(Put(m, "net_profit", NetProfit(m)))

\* parse_wb_report after pd.read_excel: the metrics with net_profit, and the
\* notes (the period taken from date cells is not part of the model)
parse_wb_report(frames) == WithNetProfit(_extract_metrics(frames))

\* ------------------------------------------------------------ report frames
MaxReportRows == 2

LabelCells == {StrCell(L_payout), StrCell(L_fines), StrCell(L_other)}
AmountCells == {NaCell, FloatCell(Fin(1500, 1)), FloatCell(Fin(200000, 1))}
SoldCells == {NaCell, FloatCell(Fin(100, 1)), FloatCell(Fin(300000, 1))}

SummaryColumns == <<R_label, R_amount, R_sold>>
SummaryRows == LabelCells \X AmountCells \X SoldCells

\* the sheet of test_parse_wb_report_extracts_period_and_metrics
TestReportFrame ==
    Table(<<R_date, R_label, R_amount, R_sold, R_storage, R_logistics,
            R_deductions, R_tax, R_cost>>,
          <<<<StrCell(L_date1), StrCell(L_payout), FloatCell(Fin(19785373, 100)),
              FloatCell(Fin(219312, 1)), FloatCell(Fin(113430, 100)),
              FloatCell(Fin(3342456, 100)), FloatCell(Fin(25000, 1)),
              FloatCell(Fin(1315872, 100)), FloatCell(Fin(92470, 1))>>,
            <<StrCell(L_date2), StrCell(L_fines), FloatCell(Fin(1500, 1)),
              NaCell, NaCell, NaCell, NaCell, NaCell, NaCell>>>>)

\* the summary sheets of at most n rows, and the test's sheet
ReportFrames(n) ==
    {Table(SummaryColumns, rows) : rows \in SeqsUpTo(SummaryRows, n)}
    \cup {TestReportFrame}

NoReport == [metrics |-> EmptyDict, notes |-> <<>>]

\* ------------------------------------------------------------ state machine
VARIABLES speeds_rows, active_ids, sales_rows, top_n, view, recs, pc,
          df, parsed, pending_speeds, db, frames, last_report, writer_pc

vars == <<speeds_rows, active_ids, sales_rows, top_n, view, recs, pc,
          df, parsed, pending_speeds, db, frames, last_report, writer_pc>>

engine_vars == <<speeds_rows, active_ids, sales_rows, top_n, view, recs>>
upload_vars == <<df, parsed, pending_speeds, db>>
report_vars == <<frames, last_report>>

NoView == build_views(<<>>, {}, <<>>)

Init ==
    /\ \/ /\ speeds_rows \in SeqsUpTo(SpeedRows, MaxRows)
          /\ active_ids \in SUBSET WarehouseIds
          /\ sales_rows \in SalesTables
       \/ /\ speeds_rows = TestRows
          /\ active_ids = TestActive
          /\ sales_rows = TestSales
    /\ top_n = 0
    /\ view = NoView
    /\ recs = <<>>
    /\ pc = "start"
    /\ df = NoTable
    /\ parsed = NoParse
    /\ pending_speeds = <<>>
    /\ db = EmptyDb
    /\ frames = <<>>
    /\ last_report = NoReport
    /\ writer_pc = "w_idle"

\* view = build_views(speeds_rows, active, sales_rows)
BuildViews ==
    /\ pc = "start"
    /\ view' = build_views(speeds_rows, active_ids, sales_rows)
    /\ pc' = IF view'.raised THEN "raised" ELSE "built"
    /\ UNCHANGED <<speeds_rows, active_ids, sales_rows, top_n, recs>>
    /\ UNCHANGED upload_vars
    /\ UNCHANGED report_vars
    /\ UNCHANGED writer_pc

\* recs = recommend_next(view, active, top_n)
RecommendNext ==
    /\ pc = "built"
    /\ \E n \in 1..MaxTopN :
          /\ top_n' = n
          /\ recs' = recommend_next(view, active_ids, n)
    /\ view' = ViewAfterRecommend(view, active_ids)
    /\ pc' = "done"
    /\ UNCHANGED <<speeds_rows, active_ids, sales_rows>>
    /\ UNCHANGED upload_vars
    /\ UNCHANGED report_vars
    /\ UNCHANGED writer_pc

Next == BuildViews \/ RecommendNext

Spec == Init /\ [][Next]_vars

\* ------------------------------------------------- the speeds upload flow
\* a fresh database, the chat in UploadStates.waiting_speeds, a file sent
UploadInit ==
    /\ df \in Tables(MaxTableRows)
    /\ parsed = NoParse
    /\ pending_speeds = <<>>
    /\ db = EmptyDb
    /\ frames = <<>>
    /\ last_report = NoReport
    /\ speeds_rows = <<>>
    /\ active_ids = {}
    /\ sales_rows = <<>>
    /\ top_n = 0
    /\ view = NoView
    /\ recs = <<>>
    /\ pc = "waiting_speeds"
    /\ writer_pc = "w_idle"

\* on_speeds_doc: parse the file; a ValidationError clears the FSM data,
\* otherwise the records become pending_speeds and the preview is shown
on_speeds_doc ==
    /\ pc = "waiting_speeds"
    /\ parsed' = parse_speeds(df)
    /\ pending_speeds' = IF parsed'.raised THEN <<>> ELSE parsed'.records
    /\ pc' = IF parsed'.raised THEN "rejected" ELSE "preview"
    /\ UNCHANGED <<df, db>>
    /\ UNCHANGED engine_vars
    /\ UNCHANGED report_vars
    /\ UNCHANGED writer_pc

\* cb_speeds_confirm: nothing pending is answered with a message only;
\* otherwise upsert_speeds(rows) and state.clear()
cb_speeds_confirm ==
    /\ pc \in {"preview", "rejected", "waiting_region_column", "column_answered"}
    /\ IF pending_speeds = <<>>
       THEN /\ pc' = "nothing_pending"
            /\ UNCHANGED <<pending_speeds, db>>
       ELSE /\ db' = upsert_speeds(db, pending_speeds)
            /\ pending_speeds' = <<>>
            /\ pc' = "confirmed"
    /\ UNCHANGED <<df, parsed>>
    /\ UNCHANGED engine_vars
    /\ UNCHANGED report_vars
    /\ UNCHANGED writer_pc

\* cb_speeds_cancel: state.clear()
cb_speeds_cancel ==
    /\ pc \in {"preview", "waiting_region_column", "column_answered"}
    /\ pending_speeds' = <<>>
    /\ pc' = "cancelled"
    /\ UNCHANGED <<df, parsed, db>>
    /\ UNCHANGED engine_vars
    /\ UNCHANGED report_vars
    /\ UNCHANGED writer_pc

\* cmd_report: without speeds a message only; otherwise
\* view = build_views(db.speeds_rows(), db.active_ids(), db.sales_rows())
cmd_report ==
    /\ pc \in {"confirmed", "cancelled"}
    /\ IF ~ has_data(db)
       THEN UNCHANGED <<speeds_rows, view>>
       ELSE /\ speeds_rows' = db_speeds_rows(db)
            /\ view' = build_views(speeds_rows', active_ids, sales_rows)
    /\ pc' = "reported"
    /\ UNCHANGED <<active_ids, sales_rows, top_n, recs>>
    /\ UNCHANGED upload_vars
    /\ UNCHANGED report_vars
    /\ UNCHANGED writer_pc

\* cb_speeds_sheet: answers with a message, the FSM is left as it is
cb_speeds_sheet ==
    /\ pc = "preview"
    /\ UNCHANGED vars

\* cb_speeds_regioncol: state.set_state(EditStates.waiting_region_column)
cb_speeds_regioncol ==
    /\ pc = "preview"
    /\ pc' = "waiting_region_column"
    /\ UNCHANGED upload_vars
    /\ UNCHANGED engine_vars
    /\ UNCHANGED report_vars
    /\ UNCHANGED writer_pc

\* on_region_column: state.clear() drops the FSM state and its data
on_region_column ==
    /\ pc = "waiting_region_column"
    /\ pending_speeds' = <<>>
    /\ pc' = "column_answered"
    /\ UNCHANGED <<df, parsed, db>>
    /\ UNCHANGED engine_vars
    /\ UNCHANGED report_vars
    /\ UNCHANGED writer_pc

UploadNext ==
    \/ on_speeds_doc
    \/ cb_speeds_confirm
    \/ cb_speeds_cancel
    \/ cb_speeds_sheet
    \/ cb_speeds_regioncol
    \/ on_region_column
    \/ cmd_report

UploadSpec == UploadInit /\ [][UploadNext]_vars

\* ------------------------------------------------------ the report bot
\* a chat without an earlier report; a document with one sheet is sent
ReportInit ==
    /\ frames \in {<<f>> : f \in ReportFrames(MaxReportRows)}
    /\ last_report = NoReport
    /\ df = NoTable
    /\ parsed = NoParse
    /\ pending_speeds = <<>>
    /\ db = EmptyDb
    /\ speeds_rows = <<>>
    /\ active_ids = {}
    /\ sales_rows = <<>>
    /\ top_n = 0
    /\ view = NoView
    /\ recs = <<>>
    /\ pc = "await_report"
    /\ writer_pc = "w_idle"

\* handle_document: a file that is not .xlsx is refused; otherwise
\* LAST_REPORT_BY_CHAT[chat] = parse_wb_report(file)
handle_document ==
    /\ pc = "await_report"
    /\ \E xlsx \in BOOLEAN :
          IF ~ xlsx
          THEN /\ pc' = "refused"
               /\ UNCHANGED last_report
          ELSE /\ last_report' = parse_wb_report(frames)
               /\ pc' = "report_sent"
    /\ UNCHANGED frames
    /\ UNCHANGED engine_vars
    /\ UNCHANGED upload_vars
    /\ UNCHANGED writer_pc

ReportNext == handle_document

ReportSpec == ReportInit /\ [][ReportNext]_vars

\* ------------------------------------------------ the Database write calls
\* the records, sales rows and id lists the write methods are called with:
\* warehouse 1 is observed from both regions; NamelessRecord, the one record
\* of warehouse 2, has no warehouse_name, which the schema declares NOT NULL
NamelessRecord == SpeedRecord(T_msk, T_msk, <<"2">>, NoneText, Fin(5, 1))
DbRecords ==
    {SpeedRecord(r, r, <<"1">>, <<"A">>, t) :
        r \in {T_msk, T_spb}, t \in {Fin(5, 1), Fin(10, 1)}}
    \cup {NamelessRecord}
DbSales == {SalesRow(r, o) : r \in {T_msk, T_spb}, o \in {Fin(100, 1), Fin(300, 1)}}
DbIds == {<<"1">>, <<"2">>}

not_db_vars ==
    <<speeds_rows, active_ids, sales_rows, top_n, view, recs,
      df, parsed, pending_speeds, frames, last_report>>

\* a fresh database file
DbInit ==
    /\ db = EmptyDb
    /\ pc = "db_open"
    /\ speeds_rows = <<>>
    /\ active_ids = {}
    /\ sales_rows = <<>>
    /\ top_n = 0
    /\ view = NoView
    /\ recs = <<>>
    /\ df = NoTable
    /\ parsed = NoParse
    /\ pending_speeds = <<>>
    /\ frames = <<>>
    /\ last_report = NoReport
    /\ writer_pc = "w_idle"

\* Database.upsert_speeds(records)
Database_upsert_speeds ==
    /\ \E records \in SeqsUpTo(DbRecords, MaxBatch) :
          /\ db' = upsert_speeds(db, records)
          /\ pc' = IF UpsertBody(db, records).raised
                   THEN "upsert_speeds_raised" ELSE "upsert_speeds_done"
    /\ UNCHANGED not_db_vars
    /\ UNCHANGED writer_pc

\* Database.replace_sales(records)
Database_replace_sales ==
    /\ \E records \in SeqsUpTo(DbSales, MaxBatch) :
          /\ db' = replace_sales(db, records)
          /\ pc' = IF ReplaceSalesBody(db, records).raised
                   THEN "replace_sales_raised" ELSE "replace_sales_done"
    /\ UNCHANGED not_db_vars
    /\ UNCHANGED writer_pc

\* Database.set_active(ids)
Database_set_active ==
    /\ \E ids \in SeqsUpTo(DbIds, MaxBatch) :
          /\ db' = set_active(db, ids)
          /\ pc' = IF SetActiveBody(db, ids).raised
                   THEN "set_active_raised" ELSE "set_active_done"
    /\ UNCHANGED not_db_vars
    /\ UNCHANGED writer_pc

DbNext == Database_upsert_speeds \/ Database_replace_sales \/ Database_set_active

DbSpec == DbInit /\ [][DbNext]_vars

\* ------------------------------------------- activation and its simulation
\* the databases the bot can hold after one speeds upload and one sales
\* upload: at most n records, a sales table with at most one row per region
HostRecords ==
    {SpeedRecord(r, r, w, IF w = <<"1">> THEN <<"A">> ELSE <<"B">>, t) :
        r \in {T_msk, T_spb}, w \in DbIds, t \in {Fin(5, 1), Fin(10, 1), None}}
HostOrders == {Fin(0, 1), Fin(100, 1)}
HostSales ==
    {<<>>}
    \cup {<<SalesRow(r, o)>> : r \in {T_msk, T_spb}, o \in HostOrders}
    \cup {<<SalesRow(T_msk, o1), SalesRow(T_spb, o2)>> : o1, o2 \in HostOrders}
HostDbs(n) ==
    {replace_sales(upsert_speeds(EmptyDb, records), sales) :
        records \in SeqsUpTo(HostRecords, n), sales \in HostSales}

\* top_n=10_000 of cb_simulate
SimulateTopN == 10000

ActivationInit ==
    /\ db \in HostDbs(MaxRows)
    /\ pc = "idle"
    /\ speeds_rows = <<>>
    /\ active_ids = {}
    /\ sales_rows = <<>>
    /\ top_n = 0
    /\ view = NoView
    /\ recs = <<>>
    /\ df = NoTable
    /\ parsed = NoParse
    /\ pending_speeds = <<>>
    /\ frames = <<>>
    /\ last_report = NoReport
    /\ writer_pc = "w_idle"

\* cb_add_active: db.add_active(w_id); an id that is no warehouse raises
cb_add_active ==
    /\ \E w_id \in DbIds :
          /\ db' = add_active(db, w_id)
          /\ pc' = IF InsertActive(db, w_id).raised THEN "add_raised" ELSE "added"
    /\ UNCHANGED not_db_vars
    /\ UNCHANGED writer_pc

\* cb_simulate: without speeds a message only; otherwise the three reads,
\* build_views and recommend_next(view, active, top_n=10_000)
cb_simulate ==
    /\ IF ~ has_data(db)
       THEN /\ pc' = "no_data"
            /\ UNCHANGED engine_vars
       ELSE /\ active_ids' = db_active_ids(db)
            /\ speeds_rows' = db_speeds_rows(db)
            /\ sales_rows' = db_sales_rows(db)
            /\ top_n' = SimulateTopN
            /\ \E v \in {build_views(speeds_rows', active_ids', sales_rows')} :
                  /\ recs' = recommend_next(v, active_ids', SimulateTopN)
                  /\ view' = ViewAfterRecommend(v, active_ids')
            /\ pc' = "simulated"
    /\ UNCHANGED upload_vars
    /\ UNCHANGED report_vars
    /\ UNCHANGED writer_pc

ActivationNext == cb_add_active \/ cb_simulate

ActivationSpec == ActivationInit /\ [][ActivationNext]_vars

\* ------------------------------------- handlers as tasks of the event loop
\* Dispatcher.start_polling runs every handler as a task of one asyncio
\* loop: a task keeps the loop until it reaches an await.  pc is the place
\* of a task that computes a report, recommendation or simulation
\* (cmd_report, _send_recommendation, cb_simulate), writer_pc the place of
\* a task that writes (cb_speeds_confirm, on_sales_doc, cb_add_active,
\* cb_remove_active).

\* the loop switching tasks between the database reads as well
SuspensionPoints_between_reads ==
    {"r_start", "r_answer", "r_done", "w_idle", "w_answer", "w_done",
     "r_read_speeds", "r_read_sales"}

\* the places where a task is not running: before its first statement, at
\* "await ...answer(...)" and after its return
SuspensionPoints == {"r_start", "r_answer", "r_done", "w_idle", "w_answer", "w_done"}

\* the loop is free for the reading task / for the writing task
ReaderMayRun == writer_pc \in SuspensionPoints
WriterMayRun == pc \in SuspensionPoints

LoopRecords ==
    {SpeedRecord(T_msk, T_msk, <<"1">>, <<"A">>, Fin(10, 1)),
     SpeedRecord(T_spb, T_spb, <<"2">>, <<"B">>, Fin(5, 1))}
LoopUploads ==
    {<<SpeedRecord(T_msk, T_msk, <<"2">>, <<"B">>, Fin(5, 1))>>,
     <<SpeedRecord(T_spb, T_spb, <<"2">>, <<"B">>, Fin(10, 1))>>}
LoopSales == {<<SalesRow(T_msk, Fin(100, 1))>>, <<SalesRow(T_spb, Fin(100, 1))>>}
LoopDbs(n) ==
    {set_active(replace_sales(upsert_speeds(EmptyDb, records), sales), ids) :
        records \in SeqsUpTo(LoopRecords, n),
        sales \in LoopSales \cup {<<>>},
        ids \in {<<>>, <<<<"1">>>>, <<<<"2">>>>}}

LoopInit ==
    /\ db \in LoopDbs(MaxRows)
    /\ pc = "r_start"
    /\ writer_pc = "w_idle"
    /\ speeds_rows = <<>>
    /\ active_ids = {}
    /\ sales_rows = <<>>
    /\ top_n = 0
    /\ view = NoView
    /\ recs = <<>>
    /\ df = NoTable
    /\ parsed = NoParse
    /\ pending_speeds = <<>>
    /\ frames = <<>>
    /\ last_report = NoReport

\* if not db.has_data(): await ...answer(...); return
task_has_data ==
    /\ ReaderMayRun
    /\ pc = "r_start"
    /\ pc' = IF has_data(db) THEN "r_read_active" ELSE "r_answer"
    /\ UNCHANGED <<engine_vars, upload_vars, report_vars, writer_pc>>

\* active = db.active_ids()
task_active_ids ==
    /\ ReaderMayRun
    /\ pc = "r_read_active"
    /\ active_ids' = db_active_ids(db)
    /\ pc' = "r_read_speeds"
    /\ UNCHANGED <<speeds_rows, sales_rows, top_n, view, recs>>
    /\ UNCHANGED <<upload_vars, report_vars, writer_pc>>

\* db.speeds_rows(), the first argument of build_views
task_speeds_rows ==
    /\ ReaderMayRun
    /\ pc = "r_read_speeds"
    /\ speeds_rows' = db_speeds_rows(db)
    /\ pc' = "r_read_sales"
    /\ UNCHANGED <<active_ids, sales_rows, top_n, view, recs>>
    /\ UNCHANGED <<upload_vars, report_vars, writer_pc>>

\* db.sales_rows(), the last argument of build_views
task_sales_rows ==
    /\ ReaderMayRun
    /\ pc = "r_read_sales"
    /\ sales_rows' = db_sales_rows(db)
    /\ pc' = "r_build"
    /\ UNCHANGED <<speeds_rows, active_ids, top_n, view, recs>>
    /\ UNCHANGED <<upload_vars, report_vars, writer_pc>>

\* view = build_views(..., active, ...)
task_build_views ==
    /\ ReaderMayRun
    /\ pc = "r_build"
    /\ view' = build_views(speeds_rows, active_ids, sales_rows)
    /\ pc' = "r_built"
    /\ UNCHANGED <<speeds_rows, active_ids, sales_rows, top_n, recs>>
    /\ UNCHANGED <<upload_vars, report_vars, writer_pc>>

\* recs = recommend_next(view, active, top_n=...), then await ...answer(...)
task_recommend_next ==
    /\ ReaderMayRun
    /\ pc = "r_built"
    /\ \E n \in {1, SimulateTopN} :
          /\ top_n' = n
          /\ recs' = recommend_next(view, active_ids, n)
    /\ view' = ViewAfterRecommend(view, active_ids)
    /\ pc' = "r_answer"
    /\ UNCHANGED <<speeds_rows, active_ids, sales_rows>>
    /\ UNCHANGED <<upload_vars, report_vars, writer_pc>>

\* cmd_report: await message.answer(...) right after build_views
task_report ==
    /\ ReaderMayRun
    /\ pc = "r_built"
    /\ pc' = "r_answer"
    /\ UNCHANGED <<engine_vars, upload_vars, report_vars, writer_pc>>

\* the awaited answer of the reading task is sent, the handler returns
task_answered ==
    /\ ReaderMayRun
    /\ pc = "r_answer"
    /\ pc' = "r_done"
    /\ UNCHANGED <<engine_vars, upload_vars, report_vars, writer_pc>>

\* cb_speeds_confirm after "await state.get_data()": db.upsert_speeds(rows)
task_cb_speeds_confirm ==
    /\ WriterMayRun
    /\ writer_pc = "w_idle"
    /\ \E rows \in LoopUploads : db' = upsert_speeds(db, rows)
    /\ writer_pc' = "w_answer"
    /\ UNCHANGED <<engine_vars, df, parsed, pending_speeds, report_vars, pc>>

\* on_sales_doc after the awaited download: db.replace_sales(records)
task_on_sales_doc ==
    /\ WriterMayRun
    /\ writer_pc = "w_idle"
    /\ \E records \in LoopSales : db' = replace_sales(db, records)
    /\ writer_pc' = "w_answer"
    /\ UNCHANGED <<engine_vars, df, parsed, pending_speeds, report_vars, pc>>

\* cb_add_active: db.add_active(w_id)
task_cb_add_active ==
    /\ WriterMayRun
    /\ writer_pc = "w_idle"
    /\ \E w_id \in DbIds : db' = add_active(db, w_id)
    /\ writer_pc' = "w_answer"
    /\ UNCHANGED <<engine_vars, df, parsed, pending_speeds, report_vars, pc>>

\* cb_remove_active: db.remove_active(w_id)
task_cb_remove_active ==
    /\ WriterMayRun
    /\ writer_pc = "w_idle"
    /\ \E w_id \in DbIds : db' = remove_active(db, w_id)
    /\ writer_pc' = "w_answer"
    /\ UNCHANGED <<engine_vars, df, parsed, pending_speeds, report_vars, pc>>

\* the awaited answer of the writing task is sent, the handler returns
task_written ==
    /\ WriterMayRun
    /\ writer_pc = "w_answer"
    /\ writer_pc' = "w_done"
    /\ UNCHANGED <<engine_vars, upload_vars, report_vars, pc>>

LoopNext ==
    \/ task_has_data
    \/ task_active_ids
    \/ task_speeds_rows
    \/ task_sales_rows
    \/ task_build_views
    \/ task_recommend_next
    \/ task_report
    \/ task_answered
    \/ task_cb_speeds_confirm
    \/ task_on_sales_doc
    \/ task_cb_add_active
    \/ task_cb_remove_active
    \/ task_written

LoopSpec == LoopInit /\ [][LoopNext]_vars

\* ------------------------------------------------------------------ claims
Built == pc \in {"built", "done"}
ObservedRegions == {speeds_rows[i].region_code : i \in 1..Len(speeds_rows)}
SalesGiven == SalesDict(sales_rows, 1, EmptyDict)
PositiveSales == {r \in DOMAIN SalesGiven : FGt(SalesGiven[r], Zero)}
RecIds == {recs[i].warehouse_id : i \in 1..Len(recs)}
\* the warehouses of the observations, under the key build_views files them
\* by, that active_ids does not contain
InactiveWarehouses ==
    {PyStr(speeds_rows[i].warehouse_id) : i \in 1..Len(speeds_rows)} \ active_ids
ScenarioA ==
    speeds_rows = TestRows /\ active_ids = TestActive /\ sales_rows = TestSales

\* C1: for every non-empty set of observed regions and every sales mapping
\* with non-negative volumes, build_views raises nothing and its weights have
\* exactly the observed regions as keys, are all >= 0 and sum to 1.
C1_WeightsNormalised ==
    (pc # "start" /\ ObservedRegions # {}) =>
        /\ Built
        /\ DOMAIN view.weights = ObservedRegions
        /\ \A r \in ObservedRegions : IsFin(view.weights[r]) /\ FLe(Zero, view.weights[r])
        /\ FSum(view.weights, ObservedRegions) = One

\* C1 witness: sales are positive only for a region that is not observed, and
\* positive for one observed region beside an unobserved one
C1_Witness ==
    /\ Built
    /\ ObservedRegions # {}
    /\ PositiveSales # {}
    /\ PositiveSales \cap ObservedRegions = {}
    /\ FSum(view.weights, ObservedRegions) = One

\* C2: every recommendation returned by recommend_next on a view built with
\* the same active set has marginal_abs >= 0.
C2_MarginalNonNegative ==
    pc = "done" =>
        \A i \in 1..Len(recs) :
            IsFin(recs[i].marginal_abs) /\ FLe(Zero, recs[i].marginal_abs)

\* C2 witness: with a warehouse active and a positive baseline, a candidate
\* that is slower than the active best in a region gains nothing, another
\* gains strictly
C2_Witness ==
    /\ pc = "done"
    /\ active_ids # {}
    /\ FGt(view.global_current, Zero)
    /\ \E i \in 1..Len(recs) :
          /\ recs[i].marginal_abs = Zero
          /\ \E r \in DOMAIN view.best_by_wh[recs[i].warehouse_id] :
                FLt(view.best_active[r], view.best_by_wh[recs[i].warehouse_id][r])

\* C3: the list returned by recommend_next is sorted non-increasing by
\* marginal_abs, and its first element has the largest marginal gain among
\* all inactive warehouses of the view.
C3_SortedByMarginal ==
    pc = "done" =>
        /\ \A i, j \in 1..Len(recs) :
              i < j => FLe(recs[j].marginal_abs, recs[i].marginal_abs)
        /\ \A w \in (DOMAIN view.best_by_wh) \ active_ids :
              /\ Len(recs) >= 1
              /\ FLe(MakeRec(view, w).marginal_abs, recs[1].marginal_abs)

\* C3 witness: two candidates with different gains, returned in the order
\* opposite to the iteration order of best_by_wh
C3_Witness ==
    /\ pc = "done"
    /\ Len(recs) = 2
    /\ FGt(recs[1].marginal_abs, recs[2].marginal_abs)
    /\ Candidates(view, active_ids) = <<recs[2].warehouse_id, recs[1].warehouse_id>>

\* C4: for the inputs of test_recommendation_prefers_best_gain, build_views
\* yields weights 0.5/0.5 and global_current = 0.1125, and
\* recommend_next(top_n=1) returns exactly warehouse 2 with warehouse_id equal
\* to the id 2 of the rows, new global speed 0.1625 and marginal_abs = 0.05.
C4_ScenarioA ==
    ScenarioA =>
        /\ Built =>
              /\ view.weights = [r \in {"msk", "spb"} |-> Fin(1, 2)]
              /\ view.global_current = Fin(9, 80)
        /\ (pc = "done" /\ top_n = 1) =>
              /\ Len(recs) = 1
              /\ recs[1].warehouse_id = IntId("2")
              /\ FAdd(recs[1].marginal_abs, recs[1].global_speed_current) = Fin(13, 80)
              /\ recs[1].marginal_abs = Fin(1, 20)

\* C5: recommend_next returns one recommendation for each warehouse of the
\* observations that is not in active_ids, cut to the first top_n of the
\* sorted list (length min(top_n, number of inactive warehouses)); no
\* recommended id is in active_ids; with no inactive warehouse the result is
\* the empty list.
C5_OnePerInactive ==
    pc = "done" =>
        LET k == Cardinality(InactiveWarehouses)
            full == recommend_next(view, active_ids, k)
        IN  /\ Len(recs) = IF top_n < k THEN top_n ELSE k
            /\ RecIds \subseteq InactiveWarehouses
            /\ Cardinality(RecIds) = Len(recs)
            /\ RecIds \cap active_ids = {}
            /\ {full[i].warehouse_id : i \in 1..Len(full)} = InactiveWarehouses
            /\ recs = SubSeq(full, 1, Len(recs))
            /\ (InactiveWarehouses = {} => recs = <<>>)

\* C5 witness: one warehouse is active, one is not, and only the inactive one
\* is recommended although top_n = 2
C5_Witness ==
    /\ pc = "done"
    /\ top_n = 2
    /\ Len(recs) = 1
    /\ \E i \in 1..Len(speeds_rows) : PyStr(speeds_rows[i].warehouse_id) \in active_ids

\* the times the observations give for region r from a warehouse that counts
\* as active, and the least of a non-empty set of times
ActiveTimes(r) ==
    {speeds_rows[i].time_hours : i \in
        {j \in 1..Len(speeds_rows) :
            /\ speeds_rows[j].region_code = r
            /\ PyStr(speeds_rows[j].warehouse_id) \in active_ids
            /\ speeds_rows[j].time_hours # None}}
LeastOf(S) == CHOOSE t \in S : \A u \in S : FLe(t, u)
Unserved == {r \in ObservedRegions : ActiveTimes(r) = {}}

\* C6: marginal_pct of a recommendation is None if and only if
\* view.global_current == 0, and otherwise marginal_abs / global_current * 100;
\* with an empty active set every marginal_pct is None; nothing divides by 0.
C6_MarginalPctNoneIffZeroBaseline ==
    pc = "done" =>
        \A i \in 1..Len(recs) :
            /\ ~Raised(recs[i].marginal_pct)
            /\ recs[i].marginal_pct = None <=> view.global_current = Zero
            /\ recs[i].marginal_pct # None =>
                  FMul(recs[i].marginal_pct, view.global_current)
                      = FMul(recs[i].marginal_abs, Hundred)
            /\ active_ids = {} => recs[i].marginal_pct = None

\* C6 witness: a warehouse is active but reaches nothing, so the baseline is 0
\* and a candidate with a positive gain gets marginal_pct None
C6_Witness ==
    /\ pc = "done"
    /\ active_ids # {}
    /\ \E i \in 1..Len(speeds_rows) : PyStr(speeds_rows[i].warehouse_id) \in active_ids
    /\ Len(recs) >= 1
    /\ recs[1].marginal_pct = None
    /\ FGt(recs[1].marginal_abs, Zero)

\* the statement of C7 for one weighted average avg of times T under weights W
AvgAsClaimed(avg, T, W) ==
    LET poisoned == \E r \in DOMAIN W : FGt(W[r], Zero) /\ Get(T, r, Inf) = Inf
        reached == {r \in DOMAIN W : Get(T, r, Inf) # Inf}
    IN  /\ avg = Inf <=> poisoned
        /\ ~poisoned =>
              /\ IsFin(avg)
              /\ avg = FSum([r \in reached |-> FMul(W[r], T[r])], reached)

\* C7: the weighted average time (avg_time_current and each recommendation's
\* average before and after) is the unreachable sentinel if and only if some
\* region of strictly positive weight is unreachable; in every other case,
\* also when a region of weight 0 is unreachable, it is the finite value
\* sum of W[r]*T[r], never nan.
C7_AvgTimeFiniteOrSentinel ==
    /\ Built => AvgAsClaimed(view.avg_time_current, view.best_active, view.weights)
    /\ pc = "done" =>
          \A i \in 1..Len(recs) :
              /\ AvgAsClaimed(recs[i].weighted_avg_time_old, view.best_active,
                              view.weights)
              /\ AvgAsClaimed(recs[i].weighted_avg_time_new,
                              NewBest(view, view.best_by_wh[recs[i].warehouse_id]),
                              view.weights)

\* C8: when a region of positive weight is served by no active warehouse,
\* avg_time_current is the unreachable sentinel while global_current is the
\* finite, non-negative sum of W[r]/T[r] over the regions the active set
\* reaches.
C8_UnreachableAsymmetry ==
    (Built /\ \E r \in Unserved : FGt(view.weights[r], Zero)) =>
        /\ view.avg_time_current = Inf
        /\ IsFin(view.global_current)
        /\ FLe(Zero, view.global_current)
        /\ view.global_current =
              FSum([r \in ObservedRegions \ Unserved |->
                      FDiv(view.weights[r], LeastOf(ActiveTimes(r)))],
                   ObservedRegions \ Unserved)

\* C8 witness: one region of positive weight is unserved, another is reached,
\* and global_current is positive
C8_Witness ==
    /\ Built
    /\ \E r \in Unserved : FGt(view.weights[r], Zero)
    /\ \E r \in ObservedRegions \ Unserved : FGt(view.weights[r], Zero)
    /\ FGt(view.global_current, Zero)
    /\ view.avg_time_current = Inf

\* the sales of the observed regions, summed
ObservedSalesTotal ==
    FSum([r \in ObservedRegions |-> Get(SalesGiven, r, Zero)], ObservedRegions)

\* C9 as stated: whenever the sales mapping has at least one positive entry,
\* weight(r) = sales.get(r, 0) / (sum of sales over observed regions) and an
\* observed region absent from sales gets weight 0; the uniform weight
\* 1/len(regions) is used only when sales has no positive entry.
C9_SalesBranchOnAnyPositive ==
    Built =>
        IF PositiveSales # {}
        THEN \A r \in ObservedRegions :
                /\ view.weights[r] = FDiv(Get(SalesGiven, r, Zero), ObservedSalesTotal)
                /\ r \notin DOMAIN SalesGiven => view.weights[r] = Zero
        ELSE \A r \in ObservedRegions :
                FMul(view.weights[r], Fin(Cardinality(ObservedRegions), 1)) = One

\* C9 amended: build_views raises nothing; when the sales summed over the
\* observed regions are positive, weight(r) * total = sales.get(r, 0) and an
\* observed region absent from sales gets weight 0; otherwise (no positive
\* entry, or positive entries only for unobserved regions) every weight is
\* 1/len(regions).
C9_SalesBranchOnObservedPositive ==
    pc # "start" =>
        /\ Built
        /\ IF FGt(ObservedSalesTotal, Zero)
           THEN \A r \in ObservedRegions :
                   /\ FMul(view.weights[r], ObservedSalesTotal)
                          = Get(SalesGiven, r, Zero)
                   /\ r \notin DOMAIN SalesGiven => view.weights[r] = Zero
           ELSE \A r \in ObservedRegions :
                   FMul(view.weights[r], Fin(Cardinality(ObservedRegions), 1)) = One

\* C9 witness: the sales-weighted branch with an observed region that has no
\* sales row, which gets weight 0
C9_Witness ==
    /\ Built
    /\ FGt(ObservedSalesTotal, Zero)
    /\ \E r \in ObservedRegions : r \notin DOMAIN SalesGiven /\ view.weights[r] = Zero
    /\ \E r \in ObservedRegions : view.weights[r] = One

\* C10: with an empty observation list, for any active set and any sales
\* mapping, build_views raises nothing and returns empty weights,
\* global_current = 0, global_opt = 0 and coverage = 0, and recommend_next on
\* that view returns the empty list.
C10_EmptyObservations ==
    (pc # "start" /\ speeds_rows = <<>>) =>
        /\ Built
        /\ DOMAIN view.weights = {}
        /\ view.global_current = Zero
        /\ view.global_opt = Zero
        /\ view.coverage = Zero
        /\ pc = "done" => recs = <<>>

\* C10 witness: no observation, a non-empty active set and positive sales,
\* after recommend_next has returned
C10_Witness ==
    /\ pc = "done"
    /\ speeds_rows = <<>>
    /\ active_ids # {}
    /\ PositiveSales # {}
    /\ recs = <<>>

\* the time an observation row stands for, the rows of a region and of a
\* (warehouse, region) pair, and the reorderings of a list
RowTime(row) == IF row.time_hours = None THEN Inf ELSE row.time_hours
RowsOfRegion(r) == {i \in 1..Len(speeds_rows) : speeds_rows[i].region_code = r}
RowsOfPair(w, r) ==
    {i \in RowsOfRegion(r) : PyStr(speeds_rows[i].warehouse_id) = w}
RowsOfActive(r) ==
    {i \in RowsOfRegion(r) : PyStr(speeds_rows[i].warehouse_id) \in active_ids}
LeastTime(I) == LeastOf({RowTime(speeds_rows[i]) : i \in I})
ObservedWarehouses ==
    {PyStr(speeds_rows[i].warehouse_id) : i \in 1..Len(speeds_rows)}
Reorderings(n) == {p \in [1..n -> 1..n] : \A i, j \in 1..n : p[i] = p[j] => i = j}
Reordered(rows, p) == [i \in 1..Len(rows) |-> rows[p[i]]]

\* C11: best_active[r] >= best_all[r] for every observed region r, an
\* unreachable best_active counting as larger than any finite time, also for
\* regions that no active warehouse serves.
C11_ActiveNotBelowAll ==
    Built =>
        \A r \in ObservedRegions :
            /\ r \in DOMAIN view.best_all
            /\ FLe(view.best_all[r], Get(view.best_active, r, Inf))

\* C11 witness: one region has no row of an active warehouse although the
\* network reaches it, while another region is reached by an active warehouse
C11_Witness ==
    /\ pc = "built"
    /\ \E r \in ObservedRegions :
          r \notin DOMAIN view.best_active /\ IsFin(view.best_all[r])
    /\ \E r \in DOMAIN view.best_active : IsFin(view.best_active[r])

\* C12: the view's coverage and every recommendation's coverage_pct lie
\* between 0 and 100, coverage_pct is never below the view's coverage, and
\* both are 0, without a division, when global_opt is 0.
C12_CoverageRange ==
    pc # "start" =>
        /\ Built
        /\ IsFin(view.coverage)
        /\ FLe(Zero, view.coverage) /\ FLe(view.coverage, Hundred)
        /\ view.global_opt = Zero => view.coverage = Zero
        /\ pc = "done" =>
              \A i \in 1..Len(recs) :
                  /\ IsFin(recs[i].coverage_pct)
                  /\ FLe(view.coverage, recs[i].coverage_pct)
                  /\ FLe(recs[i].coverage_pct, Hundred)
                  /\ view.global_opt = Zero => recs[i].coverage_pct = Zero

\* C12 witness: a candidate lifts a coverage strictly between 0 and 100
C12_Witness ==
    /\ pc = "done"
    /\ FLt(Zero, view.coverage)
    /\ \E i \in 1..Len(recs) : FLt(view.coverage, recs[i].coverage_pct)

\* C13: several observations of one (region, warehouse) pair resolve to their
\* minimum time in best_by_wh, best_all and (for an active warehouse)
\* best_active; an absent time never lowers a minimum; the three maps are the
\* same for every order of the observation rows.
C13_MinimaOrderFree ==
    pc = "built" =>
        /\ DOMAIN view.best_by_wh = ObservedWarehouses
        /\ \A w \in ObservedWarehouses :
              /\ DOMAIN view.best_by_wh[w] = {r \in ObservedRegions : RowsOfPair(w, r) # {}}
              /\ \A r \in DOMAIN view.best_by_wh[w] :
                    view.best_by_wh[w][r] = LeastTime(RowsOfPair(w, r))
        /\ DOMAIN view.best_all = ObservedRegions
        /\ \A r \in ObservedRegions : view.best_all[r] = LeastTime(RowsOfRegion(r))
        /\ DOMAIN view.best_active = {r \in ObservedRegions : RowsOfActive(r) # {}}
        /\ \A r \in DOMAIN view.best_active :
              view.best_active[r] = LeastTime(RowsOfActive(r))
        /\ \A p \in Reorderings(Len(speeds_rows)) :
              LET m == BuildLoop(Reordered(speeds_rows, p), 1, EmptyMinima, active_ids)
              IN  /\ m.best_by_wh = view.best_by_wh
                  /\ m.best_all = view.best_all
                  /\ m.best_active = view.best_active

\* C13 witness: two rows of one pair of an active warehouse, the later one
\* slower or absent, and the maps keep the earlier, smaller time
C13_Witness ==
    /\ pc = "built"
    /\ \E i, j \in 1..Len(speeds_rows) :
          /\ i < j
          /\ speeds_rows[i].region_code = speeds_rows[j].region_code
          /\ speeds_rows[i].warehouse_id = speeds_rows[j].warehouse_id
          /\ speeds_rows[i].warehouse_id \in active_ids
          /\ FLt(RowTime(speeds_rows[i]), RowTime(speeds_rows[j]))
          /\ view.best_active[speeds_rows[i].region_code] = RowTime(speeds_rows[i])

\* C14: region_changes of a recommendation holds exactly the regions the
\* candidate strictly improves, each once, with its weight, the old time
\* best_active[r] and the new time min(best_active[r], candidate time), and
\* is sorted by weight non-increasing.
C14_RegionChangesExact ==
    pc = "done" =>
        \A i \in 1..Len(recs) :
            LET ch == recs[i].region_changes
                cand == view.best_by_wh[recs[i].warehouse_id]
                old(r) == Get(view.best_active, r, Inf)
                improved == {r \in ObservedRegions :
                                r \in DOMAIN cand /\ FLt(cand[r], old(r))}
            IN  /\ {ch[k].code : k \in 1..Len(ch)} = improved
                /\ Len(ch) = Cardinality(improved)
                /\ \A k \in 1..Len(ch) :
                      /\ ch[k].weight = view.weights[ch[k].code]
                      /\ ch[k].old_time = old(ch[k].code)
                      /\ ch[k].new_time = cand[ch[k].code]
                      /\ ch[k].new_time = FMin(old(ch[k].code), cand[ch[k].code])
                /\ \A k, l \in 1..Len(ch) :
                      k < l => FLe(ch[l].weight, ch[k].weight)

\* C14 witness: a candidate improves the second region, of larger weight,
\* which is listed first, and ties the active best in no listed region
C14_Witness ==
    /\ pc = "done"
    /\ \E i \in 1..Len(recs) :
          /\ Len(recs[i].region_changes) = 2
          /\ FLt(recs[i].region_changes[2].weight, recs[i].region_changes[1].weight)
          /\ view.region_order = <<recs[i].region_changes[2].code,
                                   recs[i].region_changes[1].code>>

\* C15: for the same observations, active set and sales, the ranking returned
\* by recommend_next (the warehouse ids in order, after truncation to top_n)
\* is the same whatever order the observation rows are supplied in.
C15_RankingOrderFree ==
    pc = "done" =>
        \A p \in Reorderings(Len(speeds_rows)) :
            LET v == build_views(Reordered(speeds_rows, p), active_ids, sales_rows)
                other == recommend_next(v, active_ids, top_n)
            IN  [i \in 1..Len(other) |-> other[i].warehouse_id]
                    = [i \in 1..Len(recs) |-> recs[i].warehouse_id]

\* C16: recommend_next changes nothing it is given: the view is the same in
\* every field after the call, the key set of best_active included, and so
\* is active_ids.
C16_RecommendIsPure ==
    [][(pc = "built" /\ pc' = "done") => (view' = view /\ active_ids' = active_ids)]_vars


\* C17: every record returned by parse_speeds has a non-empty region_code, a
\* non-empty warehouse_id and a time_hours that is None or a positive finite
\* number.
C17_ParsedRecordsValid ==
    \A i \in 1..Len(parsed.records) :
        /\ parsed.records[i].region_code # <<>>
        /\ parsed.records[i].warehouse_id # <<>>
        /\ \/ parsed.records[i].time_hours = None
           \/ /\ IsFin(parsed.records[i].time_hours)
              /\ parsed.records[i].time_hours.n > 0

\* C18: parse_speeds raises ValidationError and returns no records for the
\* table with the two unrecognised columns "a", "b" and one data row.
C18_UnknownFormatRejected ==
    (pc # "waiting_speeds" /\ df = TestUnknownTable)
        => (parsed.raised /\ parsed.records = <<>>)

\* the records of one confirmed upload that belong to a (region, warehouse)
\* pair, and an upload whose times are all None or positive finite
UploadedPairs ==
    {<<parsed.records[i].region_code, parsed.records[i].warehouse_id>> :
        i \in 1..Len(parsed.records)}
UploadedTimes(pair) ==
    {RowTime(parsed.records[i]) : i \in
        {j \in 1..Len(parsed.records) :
            <<parsed.records[j].region_code, parsed.records[j].warehouse_id>> = pair}}
TimesAsSpecified ==
    \A i \in 1..Len(parsed.records) :
        \/ parsed.records[i].time_hours = None
        \/ IsFin(parsed.records[i].time_hours) /\ parsed.records[i].time_hours.n > 0

\* C19: after a confirmed upload the report uses, for every (region,
\* warehouse) pair of the file, the minimum of the times of the rows of
\* that pair (a row without a time counts as unreachable), whatever the
\* order of the rows.
C19_DuplicatesResolveToMinimum ==
    (pc = "reported" /\ has_data(db) /\ TimesAsSpecified) =>
        \A pair \in UploadedPairs :
            Get(Get(view.best_by_wh, StrId(pair[2]), EmptyDict), pair[1], Inf)
                = LeastOf(UploadedTimes(pair))

\* the rows of the sheet whose label cell holds a key of the metric, and
\* the metrics for which that row is the only source of a value
SheetOf == frames[1]
LabelOf(row) == row[ColumnIndex(SheetOf, R_label)]
AmountOf(row) == row[ColumnIndex(SheetOf, R_amount)]
LabelledRows(metric) ==
    {i \in 1..Len(SheetOf.rows) : AnyKeyIn(metric, _norm(LabelOf(SheetOf.rows[i])))}
HeaderMatches(metric) ==
    \E c \in 1..Len(SheetOf.columns) :
        AnyKeyIn(metric, _norm(StrCell(SheetOf.columns[c])))

\* C20: for a summary row whose label matches a metric's keyword (and that
\* is the only row and no column header does), the value parse_wb_report
\* reports for the metric is the amount in the row's amount column, also
\* when other cells of the row hold larger numbers.
C20_ValueFromAmountColumn ==
    pc = "report_sent" =>
        \A i \in 1..Len(MetricNames) :
            LET metric == MetricNames[i]
            IN  \A r \in LabelledRows(metric) :
                    (/\ LabelledRows(metric) = {r}
                     /\ ~ HeaderMatches(metric)
                     /\ ~ IsNa(AmountOf(SheetOf.rows[r])))
                    => /\ metric \in DOMAIN last_report.metrics
                       /\ last_report.metrics[metric] = AmountOf(SheetOf.rows[r]).num
\* C23: a write call that raises leaves the database exactly as it was
\* before the call: a failed upsert_speeds keeps no record of the batch, a
\* failed replace_sales does not empty the sales table and a failed
\* set_active does not clear the active set.
WriteRaised(p) ==
    p \in {"upsert_speeds_raised", "replace_sales_raised", "set_active_raised"}

C23_WritesAllOrNothing == [][WriteRaised(pc') => db' = db]_vars

\* a replace_sales has failed on a database that holds sales, and a
\* set_active or upsert_speeds has failed on one that holds active ids
C23_Witness ==
    /\ pc = "replace_sales_raised"
    /\ db.sales_order # <<>>
    /\ db.active # {}

\* C24: in the speeds upload flow the database is written only by Confirm,
\* with the pending records, and at most once per upload; the records of a
\* successful parse stay pending until Confirm or Cancel is pressed, whatever
\* other preview actions (another sheet, the region column and its prompt)
\* happen in between.
C24_PendingUntilConfirmOrCancel ==
    [][/\ db' # db =>
            /\ pc' = "confirmed"
            /\ db = EmptyDb
            /\ db' = upsert_speeds(db, pending_speeds)
       /\ (pending_speeds # <<>> /\ pending_speeds' = <<>>) =>
            pc' \in {"confirmed", "cancelled"}]_vars

\* the database after add_active(w) and the view cb_simulate would build
\* from it
Activated(w) == add_active(db, w.v)
ViewOf(d) == build_views(db_speeds_rows(d), db_active_ids(d), db_sales_rows(d))

\* C21: in a handler that computes a report, recommendation or simulation
\* the three reads passed to build_views form a consistent snapshot: while
\* the handler runs from its first read to the await of its answer, what it
\* has read so far is what the database holds, no write of another handler
\* having come in between, and recommend_next gets the active set that
\* build_views got.
C21_ConsistentSnapshot ==
    /\ pc \in {"r_read_speeds", "r_read_sales", "r_build", "r_built"} =>
          active_ids = db_active_ids(db)
    /\ pc \in {"r_read_sales", "r_build", "r_built"} =>
          speeds_rows = db_speeds_rows(db)
    /\ pc \in {"r_build", "r_built"} => sales_rows = db_sales_rows(db)
    /\ pc = "r_built" => view = ViewOf(db)
    /\ (pc \in {"r_answer", "r_done"} /\ top_n > 0) =>
          recs = recommend_next(build_views(speeds_rows, active_ids, sales_rows),
                                active_ids, top_n)

\* a recommendation was computed and answered, and the write of another
\* handler has since changed the active set the recommendation was built on
C21_Witness ==
    /\ pc = "r_done"
    /\ writer_pc = "w_done"
    /\ top_n > 0
    /\ recs # <<>>
    /\ active_ids # db_active_ids(db)

\* C22: simulation agrees with real activation: for every inactive
\* warehouse w of the data, the view rebuilt after add_active(w) has
\* global_current equal to the previous global_current plus the marginal_abs
\* reported for w, coverage equal to the reported coverage_pct,
\* avg_time_current equal to the reported weighted_avg_time_new, and
\* best_active equal to the simulated new_best on every region.
C22_SimulationAgrees ==
    pc = "simulated" =>
        \A i \in 1..Len(recs) :
            /\ FEq(ViewOf(Activated(recs[i].warehouse_id)).global_current,
                   FAdd(view.global_current, recs[i].marginal_abs))
            /\ FEq(ViewOf(Activated(recs[i].warehouse_id)).coverage,
                   recs[i].coverage_pct)
            /\ FEq(ViewOf(Activated(recs[i].warehouse_id)).avg_time_current,
                   recs[i].weighted_avg_time_new)
            /\ \A r \in DOMAIN view.region_name :
                  FEq(Get(ViewOf(Activated(recs[i].warehouse_id)).best_active, r, Inf),
                      NewBest(view, view.best_by_wh[recs[i].warehouse_id])[r])

\* C25: over add_active operations on fixed data, global_current and
\* coverage never decrease from one rebuilt view to the next; once every
\* warehouse of the data is active, best_active equals best_all on every
\* region, coverage is 100 (0 when global_opt is 0) and recommend_next
\* returns the empty list.
AllActive == DOMAIN db.warehouses \subseteq db.active

FullyActivated ==
    (pc = "simulated" /\ AllActive) =>
        /\ \A r \in DOMAIN view.region_name :
              FEq(Get(view.best_active, r, Inf), Get(view.best_all, r, Inf))
        /\ FEq(view.coverage, IF FEq(view.global_opt, Zero) THEN Zero ELSE Hundred)
        /\ recs = <<>>

NeverDecreases ==
    pc' = "simulated" =>
        /\ FLe(view.global_current, view'.global_current)
        /\ FLe(view.coverage, view'.coverage)

C25_ActivationMonotone == [] FullyActivated /\ [][NeverDecreases]_vars

\* two views were rebuilt with an activation in between that raised the
\* global speed, and every warehouse of the data is active
C25_Witness ==
    /\ pc = "simulated"
    /\ AllActive
    /\ Cardinality(db.active) = 2
    /\ FGt(view.global_current, Zero)
    /\ FEq(view.coverage, Hundred)

====
